---- MODULE Spec2Model ----
(***************************************************************************)
(* Model of the rule engine (src/rule_engine): the computation engine,     *)
(* the 3-phase eligibility checker, the addon processor and the            *)
(* orchestrator's per-contract pipeline (RuleEngine.process_single_coupon).*)
(*                                                                         *)
(* Decimals are exact: a Decimal is a record [c, e] standing for           *)
(* c * 10^(-e).  Dates are day numbers.  Strings are TLA+ strings; the     *)
(* few string functions the code uses (strip, upper) are tables over the   *)
(* strings the model draws its inputs from.                                *)
(***************************************************************************)
EXTENDS Integers, Sequences, FiniteSets, TLC

VARIABLES
    coupon,            \* the validated record (CouponData)
    contract,          \* the contract under evaluation (ContractData)
    pc,                \* position in the operation being run
    trigger_value,     \* result of compute_trigger, in units of 0.0001
    payout_value,      \* result of compute_payout, in units of 0.0001
    applicable_tier,   \* row returned by _find_applicable_tier, or NoRow
    sector_eligible, sector_reasons,     \* result of check_sector_eligibility
    trigger_eligible, trigger_reasons,   \* result of check_trigger_eligibility
    payout_eligible, payout_reasons,     \* result of check_payout_eligibility
    contract_analysis, \* the ContractAnalysis of the contract, once assembled
    final_trigger_eligible, final_payout_eligible,  \* flags of the addon loop
    addon_details,     \* results of the addon rules processed so far
    addon_index,       \* position of the addon loop in addon_rule_cases
    addon_result,      \* what process_addon_rules returned, once it has
    contract_analyses, \* the dict of analyses of the result, as (key, analysis) entries
    contract_count, eligible_count,      \* counters of process_single_coupon
    calls,             \* the operations called for the contract so far
    mapper_config,     \* FieldMapper.config['mappings'], the entries of the configuration
    arg_field, arg_in, arg_out,          \* rule field, IN and OUT values of a criterion check
    field_value,       \* what get_field_value returned
    check_result,      \* what _check_criterion_logic returned
    all_contracts,     \* self._contracts_cache, the contracts in loading order
    loop_index,        \* position of the contract loop in all_contracts
    outcome,           \* None while the call runs, then what the caller got
    results,           \* (record, outcome) of the calls made before this one
    window_start, window_end,            \* start_date and end_date of the rule's contract
    reset_config,      \* the rule's reset_config
    period_current, period_index,        \* current and index of the period loop
    periods,           \* the periods calculated so far
    mtp_contracts,     \* the contracts generated so far
    mtp_outcome        \* None, then what _generate_mtps_for_rollback gave its caller

inputVars == <<coupon, contract>>

valueVars == <<trigger_value, payout_value, applicable_tier>>

phaseVars == <<sector_eligible, sector_reasons, trigger_eligible, trigger_reasons,
               payout_eligible, payout_reasons>>

addonVars == <<final_trigger_eligible, final_payout_eligible, addon_details, addon_index,
               addon_result>>

resultVars == <<contract_analysis, contract_analyses, contract_count, eligible_count>>

fieldVars == <<mapper_config, arg_field, arg_in, arg_out, field_value, check_result>>

loopVars == <<all_contracts, loop_index, outcome, results>>

periodVars == <<window_start, window_end, reset_config, period_current, period_index,
                periods, mtp_contracts, mtp_outcome>>

vars == <<inputVars, pc, valueVars, phaseVars, addonVars, resultVars, calls, fieldVars,
          loopVars, periodVars>>

(***************************************************************************)
(* Bounds of the model.                                                    *)
(***************************************************************************)
MaxRows == 2           \* rows of a tier table drawn by the inputs
MaxBracket == 2        \* bracket bounds are 0, 1000, .., 1000 * MaxBracket
MaxDate == 4           \* dates are the days 1 .. MaxDate
MaxContracts == 2      \* the cache holds at most MaxContracts contracts
MaxCalls == 3          \* process_single_coupon is called at most MaxCalls times
MaxAddons == 2         \* addon rules of a contract

(***************************************************************************)
(* Decimal arithmetic (python decimal.Decimal, exact in the ranges used).  *)
(***************************************************************************)
precision == 4

RECURSIVE Pow10(_)
Pow10(n) == IF n = 0 THEN 1 ELSE 10 * Pow10(n - 1)

Dec(c, e) == [c |-> c, e |-> e]

DecZero == Dec(0, 0)

MaxE(a, b) == IF a.e >= b.e THEN a.e ELSE b.e

\* coefficient of d rescaled to exponent e >= d.e
Rescale(d, e) == d.c * Pow10(e - d.e)

DecAdd(a, b) == Dec(Rescale(a, MaxE(a, b)) + Rescale(b, MaxE(a, b)), MaxE(a, b))

DecMul(a, b) == Dec(a.c * b.c, a.e + b.e)

\* x / Decimal('100')
DecDiv100(a) == Dec(a.c, a.e + 2)

DecLE(a, b) == Rescale(a, MaxE(a, b)) <= Rescale(b, MaxE(a, b))

DecLT(a, b) == Rescale(a, MaxE(a, b)) < Rescale(b, MaxE(a, b))

DecEq(a, b) == Rescale(a, MaxE(a, b)) = Rescale(b, MaxE(a, b))

\* integer division rounding half away from zero (ROUND_HALF_UP)
HalfUpDiv(n, d) ==
    IF n >= 0 THEN (n \div d) + (IF 2 * (n % d) >= d THEN 1 ELSE 0)
    ELSE -(((-n) \div d) + (IF 2 * ((-n) % d) >= d THEN 1 ELSE 0))

\* value.quantize(Decimal('0.0001'), rounding=ROUND_HALF_UP): the result as
\* the integer number of 0.0001 units
Quantize(d) ==
    IF d.e <= precision
    THEN d.c * Pow10(precision - d.e)
    ELSE HalfUpDiv(d.c, Pow10(d.e - precision))

(***************************************************************************)
(* Optional values: None is the empty sequence, a value v is <<v>>.        *)
(***************************************************************************)
None == << >>

Some(v) == <<v>>

IsNone(o) == Len(o) = 0

(***************************************************************************)
(* Tier tables.  A row is [min, max, max_inf, value, unit]: max_inf says   *)
(* that the row declares no maximum (target.get('max', float('inf'))).     *)
(* A tier is [rows |-> sequence of rows]; contract.tiers is a sequence of  *)
(* tiers.  NoRow stands for the None that a failed lookup returns.         *)
(***************************************************************************)
Row(mn, mx, inf, v, u) == [min |-> mn, max |-> mx, max_inf |-> inf, value |-> v, unit |-> u]

NoRow == None

\* a lookup that excludes the lower bound of a bracket
InBracket_exclusive_min(revenue, row) ==
    /\ DecLT(row.min, revenue)
    /\ (row.max_inf \/ DecLE(revenue, row.max))

\* min_value <= revenue <= max_value
InBracket(revenue, row) ==
    /\ DecLE(row.min, revenue)
    /\ (row.max_inf \/ DecLE(revenue, row.max))

\* the rows of all tiers, in declaration order (for tier in tiers: for row in rows)
RECURSIVE AllRows(_)
AllRows(tiers) ==
    IF tiers = << >> THEN << >> ELSE Head(tiers).rows \o AllRows(Tail(tiers))

\* first row, in declaration order, whose bracket holds the revenue
RECURSIVE FirstInBracket(_, _)
FirstInBracket(revenue, rows) ==
    IF rows = << >> THEN NoRow
    ELSE IF InBracket(revenue, Head(rows)) THEN Some(Head(rows))
    ELSE FirstInBracket(revenue, Tail(rows))

\* a lookup that takes the last row whose bracket holds the revenue
_find_applicable_tier_last_match(revenue, tiers) ==
    LET rows == AllRows(tiers)
        held == {i \in 1..Len(rows) : InBracket(revenue, rows[i])}
    IN  IF held = {} THEN NoRow
        ELSE Some(rows[CHOOSE i \in held : \A j \in held : j <= i])

_find_applicable_tier(revenue, tiers) == FirstInBracket(revenue, AllRows(tiers))

_calculate_tier_payout(revenue, tier) ==
    IF tier.unit = "PERCENT" THEN DecMul(revenue, DecDiv100(tier.value))
    ELSE IF tier.unit = "AMOUNT" THEN tier.value
    ELSE DecMul(revenue, DecDiv100(tier.value))

_apply_tiered_payout(considered_revenue, c) ==
    IF c.tiers = << >> THEN DecZero
    ELSE LET applicable == _find_applicable_tier(considered_revenue, c.tiers)
         IN  IF IsNone(applicable) THEN DecZero
             ELSE _calculate_tier_payout(considered_revenue, applicable[1])

(***************************************************************************)
(* Revenue components.                                                     *)
(***************************************************************************)
IsIn(x, seq) == \E i \in 1..Len(seq) : seq[i] = x

component_mapping(cpn, component) ==
    CASE component = "BASE" -> cpn.cpn_revenue_base
      [] component = "YQ"   -> cpn.cpn_revenue_yq
      [] component = "YR"   -> cpn.cpn_revenue_yr
      [] component = "XT"   -> cpn.cpn_revenue_xt
      [] OTHER              -> DecZero

RECURSIVE SumComponents(_, _)
SumComponents(cpn, components) ==
    IF components = << >> THEN DecZero
    ELSE LET rest == SumComponents(cpn, Tail(components))
         IN  IF Head(components) \in {"BASE", "YQ", "YR", "XT"}
             THEN DecAdd(component_mapping(cpn, Head(components)), rest)
             ELSE rest

\* a considered revenue that ignores the declared components
_calculate_considered_revenue_total(cpn, components) == cpn.cpn_total_revenue

_calculate_considered_revenue(cpn, components) ==
    IF IsIn("NONE", components) THEN cpn.cpn_total_revenue
    ELSE SumComponents(cpn, components)

_apply_trigger_formula(considered_revenue, c) == considered_revenue

_apply_percentage_payout(considered_revenue, c) ==
    IF IsNone(c.payout_percentage) \/ c.payout_percentage[1].c = 0 THEN DecZero
    ELSE DecMul(considered_revenue, c.payout_percentage[1])

\* a fixed payout that grows with the revenue
_apply_fixed_payout_plus_revenue(considered_revenue, c) ==
    IF IsNone(c.payout_fixed_amount) THEN considered_revenue
    ELSE DecAdd(c.payout_fixed_amount[1], considered_revenue)

\* getattr(contract, 'payout_fixed_amount', Decimal('0'))
_apply_fixed_payout(considered_revenue, c) ==
    IF IsNone(c.payout_fixed_amount) THEN DecZero ELSE c.payout_fixed_amount[1]

_apply_capping(value, cap_value) ==
    IF DecLT(cap_value, value) THEN cap_value ELSE value

(***************************************************************************)
(* Formulas.  A formula text is the sequence of its tokens (identifiers,   *)
(* operators, parentheses); None is a contract without formula.            *)
(***************************************************************************)
math_operators == {"=", "+", "-", "*", "/", "(", ")", "^", "**"}

formula_parameters == {"BASE", "YQ", "YR", "XT", "TOTAL", "slab_percent", "tier_percent"}

\* tokens whose lower-case text contains one of the descriptive words
\* ('excluding', 'including', 'revenue', 'flown', ..., 'on', 'program', 'incentive')
descriptive_tokens == {"revenue", "flown", "on", "excluding", "amount_in_slab_on", "commissions"}

_is_mathematical_formula(formula) ==
    LET has_operators  == \E i \in 1..Len(formula) : formula[i] \in math_operators
        has_parameters == \E i \in 1..Len(formula) : formula[i] \in formula_parameters
        is_descriptive == \E i \in 1..Len(formula) : formula[i] \in descriptive_tokens
    IN  Len(formula) > 0 /\ has_operators /\ has_parameters /\ ~is_descriptive

\* FormulaParser._calculate_considered_revenue
FP_calculate_considered_revenue(cpn, components) ==
    IF IsIn("NONE", components) THEN cpn.cpn_total_revenue
    ELSE SumComponents(cpn, components)

row_percentage(row) ==
    IF row.unit = "PERCENT" THEN DecDiv100(row.value) ELSE DecZero

\* first row of the first tier that has rows
RECURSIVE first_tier_row(_)
first_tier_row(tiers) ==
    IF tiers = << >> THEN NoRow
    ELSE IF Head(tiers).rows # << >> THEN Some(Head(tiers).rows[1])
    ELSE first_tier_row(Tail(tiers))

_extract_tier_percentage(cpn, c) ==
    IF c.tiers = << >> THEN None
    ELSE LET considered_revenue == FP_calculate_considered_revenue(cpn, c.payout_components)
             first == first_tier_row(c.tiers)
             found == FirstInBracket(considered_revenue, AllRows(c.tiers))
         IN  IF DecLT(considered_revenue, Dec(1000, 0)) /\ ~IsNone(first)
             THEN Some(row_percentage(first[1]))
             ELSE IF ~IsNone(found) THEN Some(row_percentage(found[1]))
             ELSE IF ~IsNone(first) THEN Some(row_percentage(first[1]))
             ELSE None

\* _create_evaluation_context: the value bound to a name, None when unbound
context(cpn, c, name) ==
    LET tier_percent == _extract_tier_percentage(cpn, c)
    IN  CASE name = "BASE"  -> Some(cpn.cpn_revenue_base)
          [] name = "YQ"    -> Some(cpn.cpn_revenue_yq)
          [] name = "YR"    -> Some(cpn.cpn_revenue_yr)
          [] name = "XT"    -> Some(cpn.cpn_revenue_xt)
          [] name = "TOTAL" -> Some(cpn.cpn_total_revenue)
          [] name \in {"slab_percent", "tier_percent"} ->
                IF ~IsNone(tier_percent) THEN tier_percent ELSE c.payout_percentage
          [] name \in {"amount_in_slab_on", "band_percent"} -> Some(DecZero)
          [] OTHER -> None

SubSeqFrom(seq, i) == SubSeq(seq, i, Len(seq))

\* parse_formula: the expression is what follows the first '='
RECURSIVE IndexOf(_, _, _)
IndexOf(x, seq, i) ==
    IF i > Len(seq) THEN 0 ELSE IF seq[i] = x THEN i ELSE IndexOf(x, seq, i + 1)

expression_of(formula) ==
    LET k == IndexOf("=", formula, 1)
    IN  IF k = 0 THEN formula ELSE SubSeqFrom(formula, k + 1)

\* nesting depth of position i: '(' before it minus ')' before it
ParenDepth(toks, i) ==
    Cardinality({j \in 1..(i - 1) : toks[j] = "("})
      - Cardinality({j \in 1..(i - 1) : toks[j] = ")"})

TopLevel(toks, op) == {i \in 1..Len(toks) : toks[i] = op /\ ParenDepth(toks, i) = 0}

MaxOf(S) == CHOOSE x \in S : \A y \in S : y <= x

is_lower_identifier(tok) ==
    tok \in {"amount_in_slab_on", "slab_percent", "tier_percent", "band_percent",
             "payout_amount", "bonus_on", "rebate", "of"}

\* left / right of python numbers, None for a zero divisor; the quotient is
\* carried to two more places, exact for the divisors the records hold
TrueDiv(a, b) ==
    IF b.c = 0 THEN None ELSE Some(Dec((a.c * 100) \div b.c, a.e - b.e + 2))

\* _safe_evaluate / _evaluate_ast after the parameters were substituted:
\* the value of the expression, None when evaluation raises
RECURSIVE EvalExpr(_, _, _)
EvalExpr(toks, cpn, c) ==
    IF toks = << >> THEN None
    ELSE IF TopLevel(toks, ">") # {} THEN
        \* ast.Compare is no node of _evaluate_ast: ValueError, and the
        \* fallback eval(expression) returns the truth value
        LET i == MaxOf(TopLevel(toks, ">"))
            l == EvalExpr(SubSeq(toks, 1, i - 1), cpn, c)
            r == EvalExpr(SubSeqFrom(toks, i + 1), cpn, c)
        IN  IF IsNone(l) \/ IsNone(r) THEN None
            ELSE Some(IF DecLT(r[1], l[1]) THEN Dec(1, 0) ELSE DecZero)
    ELSE IF TopLevel(toks, "+") # {} THEN
        LET i == MaxOf(TopLevel(toks, "+"))
            l == EvalExpr(SubSeq(toks, 1, i - 1), cpn, c)
            r == EvalExpr(SubSeqFrom(toks, i + 1), cpn, c)
        IN  IF IsNone(l) \/ IsNone(r) THEN None ELSE Some(DecAdd(l[1], r[1]))
    ELSE IF TopLevel(toks, "*") \cup TopLevel(toks, "/") # {} THEN
        LET i == MaxOf(TopLevel(toks, "*") \cup TopLevel(toks, "/"))
            l == EvalExpr(SubSeq(toks, 1, i - 1), cpn, c)
            r == EvalExpr(SubSeqFrom(toks, i + 1), cpn, c)
        IN  IF IsNone(l) \/ IsNone(r) THEN None
            ELSE IF toks[i] = "*" THEN Some(DecMul(l[1], r[1]))
            ELSE TrueDiv(l[1], r[1])
    ELSE IF Len(toks) >= 4 /\ is_lower_identifier(toks[1]) /\ toks[2] = "("
            /\ toks[Len(toks)] = ")" THEN
        \* a function call: amount_in_slab_on(P) is P, any other call is 0
        IF toks[1] = "amount_in_slab_on" /\ Len(toks) = 4
        THEN (IF IsNone(context(cpn, c, toks[3])) THEN Some(DecZero)
              ELSE context(cpn, c, toks[3]))
        ELSE Some(DecZero)
    ELSE IF Len(toks) >= 3 /\ toks[1] = "(" /\ toks[Len(toks)] = ")" THEN
        EvalExpr(SubSeq(toks, 2, Len(toks) - 1), cpn, c)
    ELSE IF Len(toks) = 1 /\ toks[1] \notin math_operators THEN
        \* a parameter: its context value, 0 when it is not in the context
        (IF IsNone(context(cpn, c, toks[1])) THEN Some(DecZero)
         ELSE context(cpn, c, toks[1]))
    ELSE None

\* FormulaParser.evaluate_formula: 4 places, 0 on any failure
evaluate_formula(formula, cpn, c) ==
    LET result == EvalExpr(expression_of(formula), cpn, c)
    IN  IF IsNone(result) THEN DecZero ELSE Dec(Quantize(result[1]), precision)

(***************************************************************************)
(* ComputationEngine.compute_trigger / compute_payout                      *)
(***************************************************************************)
compute_trigger(cpn, c) ==
    LET uncapped ==
            IF ~IsNone(c.trigger_formula) /\ _is_mathematical_formula(c.trigger_formula[1])
            THEN evaluate_formula(c.trigger_formula[1], cpn, c)
            ELSE _apply_trigger_formula(
                     _calculate_considered_revenue(cpn, c.trigger_components), c)
        value ==
            IF c.trigger_capping THEN _apply_capping(uncapped, c.trigger_capping_value)
            ELSE uncapped
    IN  Quantize(value)

payout_by_type(considered_revenue, c) ==
    IF c.payout_type = "PERCENTAGE" THEN _apply_percentage_payout(considered_revenue, c)
    ELSE IF c.payout_type = "AMOUNT" THEN _apply_fixed_payout(considered_revenue, c)
    ELSE _apply_tiered_payout(considered_revenue, c)

compute_payout(cpn, c) ==
    LET uncapped ==
            IF ~IsNone(c.payout_formula) /\ _is_mathematical_formula(c.payout_formula[1])
            THEN evaluate_formula(c.payout_formula[1], cpn, c)
            ELSE payout_by_type(_calculate_considered_revenue(cpn, c.payout_components), c)
        value ==
            IF c.payout_capping THEN _apply_capping(uncapped, c.payout_capping_value)
            ELSE uncapped
    IN  Quantize(value)

(***************************************************************************)
(* Strings.  str.strip / upper / lower and the [:7] slice are tables over  *)
(* the strings the inputs use.                                             *)
(***************************************************************************)
StrStrip(s) ==
    CASE s = "qr " -> "qr"
      [] s = "QR " -> "QR"
      [] s = " QR1234" -> "QR1234"
      [] s = " Unknown" -> "Unknown"
      [] s = " " -> ""
      [] OTHER -> s

StrUpper(s) ==
    CASE s = "qr" -> "QR"
      [] s = "qr " -> "QR "
      [] s = "y" -> "Y"
      [] s = "Unknown" -> "UNKNOWN"
      [] s = "unknown" -> "UNKNOWN"
      [] s = " Unknown" -> " UNKNOWN"
      [] s = "qr1234" -> "QR1234"
      [] s = "all" -> "ALL"
      [] OTHER -> s

StrLower(s) ==
    CASE s = "QR" -> "qr"
      [] s = "QR " -> "qr "
      [] s = "Y" -> "y"
      [] s = "N" -> "n"
      [] s = "Unknown" -> "unknown"
      [] s = "UNKNOWN" -> "unknown"
      [] s = " Unknown" -> " unknown"
      [] s = " UNKNOWN" -> " unknown"
      [] s = "EK" -> "ek"
      [] s = "ALL" -> "all"
      [] OTHER -> s

StrFirst7(s) ==
    CASE s = "12345678" -> "1234567"
      [] OTHER -> s

\* the characters of a flight number; a string that is no flight number of
\* the inputs is spelled as one symbol, neither a letter nor a digit
Chars(s) ==
    CASE s = "QR1234" -> <<"Q", "R", "1", "2", "3", "4">>
      [] s = "EK1234" -> <<"E", "K", "1", "2", "3", "4">>
      [] s = "qr1234" -> <<"q", "r", "1", "2", "3", "4">>
      [] s = " QR1234" -> <<" ", "Q", "R", "1", "2", "3", "4">>
      [] s = "1234" -> <<"1", "2", "3", "4">>
      [] s = "QR0012" -> <<"Q", "R", "0", "0", "1", "2">>
      [] s = "0012" -> <<"0", "0", "1", "2">>
      [] s = "12" -> <<"1", "2">>
      [] s = "QR00" -> <<"Q", "R", "0", "0">>
      [] s = "00" -> <<"0", "0">>
      [] s = "0" -> <<"0">>
      [] s = "QR" -> <<"Q", "R">>
      [] s = "Q1234" -> <<"Q", "1", "2", "3", "4">>
      [] s = "QRA12" -> <<"Q", "R", "A", "1", "2">>
      [] s = "" -> << >>
      [] OTHER -> <<s>>

FlightStrings ==
    {"QR1234", "EK1234", "qr1234", " QR1234", "1234", "QR0012", "0012", "12", "QR00", "00",
     "0", "QR", "Q1234", "QRA12", ""}

\* the string of a character sequence
FromChars(cs) == CHOOSE s \in FlightStrings : Chars(s) = cs

UpperLetters ==
    {"A", "B", "C", "D", "E", "F", "G", "H", "I", "J", "K", "L", "M", "N", "O", "P", "Q",
     "R", "S", "T", "U", "V", "W", "X", "Y", "Z"}

Digits == {"0", "1", "2", "3", "4", "5", "6", "7", "8", "9"}

\* value.lstrip('0')
RECURSIVE LstripZeros(_)
LstripZeros(cs) ==
    IF cs # << >> /\ Head(cs) = "0" THEN LstripZeros(Tail(cs)) ELSE cs

(***************************************************************************)
(* FieldMapper (field_mapper.py).  A field value is None, a scalar or a    *)
(* list; a check returns (passed, reason).                                 *)
(***************************************************************************)
FieldNone == [kind |-> "none", vals |-> << >>]

Scalar(v) == [kind |-> "scalar", vals |-> <<v>>]

ListOf(vs) == [kind |-> "list", vals |-> vs]

Reason(msg, field) == [msg |-> msg, field |-> field]

Passed == [passed |-> TRUE, reason |-> None]

Failed(msg, field) == [passed |-> FALSE, reason |-> Some(Reason(msg, field))]

\* one entry of the mapping configuration
Mapping(ruleField, inputPath, group, dataType, matchMode, nullHandling, normalize) ==
    [ruleField |-> ruleField, inputPath |-> inputPath, criteriaGroup |-> group,
     dataType |-> dataType, matchMode |-> matchMode, nullHandling |-> nullHandling,
     normalize |-> normalize, ignoreCriteria |-> FALSE,
     alternativePaths |-> << >>, fallbackPath |-> None, forceList |-> FALSE]

\* the configuration the mapper loads: RBD is a booking field, the marketing
\* airline an airline/flight field, the agency code a geographic field; the
\* fare type and the code-share flag belong to no sector group
config_mappings ==
    <<Mapping("rbd", "cpn_RBD", "booking", "string", "any", "skip_and_allow", <<"trim", "upper">>),
      Mapping("marketingAirline", "marketing_airline", "airline_flight", "string", "any",
              "skip_and_allow", <<"trim", "upper">>),
      Mapping("iataCode", "iata", "geographic", "string", "any", "skip_and_allow",
              <<"trim", "first7">>),
      Mapping("fareType", "fare_type", "other", "string", "any", "skip_and_allow",
              <<"trim", "upper">>),
      Mapping("codeShare", "code_share", "other", "boolean", "any", "skip_and_allow", << >>)>>

\* self.mappings = {m['ruleField']: m ...}: the last entry of a rule field
RECURSIVE LastMapping(_, _)
LastMapping(ms, rule_field) ==
    IF ms = << >> THEN None
    ELSE IF ms[Len(ms)].ruleField = rule_field THEN Some(ms[Len(ms)])
    ELSE LastMapping(SubSeq(ms, 1, Len(ms) - 1), rule_field)

get_mapping(rule_field) == LastMapping(mapper_config, rule_field)

get_criteria_group(rule_field) ==
    IF IsNone(get_mapping(rule_field)) THEN None
    ELSE Some(get_mapping(rule_field)[1].criteriaGroup)

\* the flight number stripped of blanks only
_strip_airline_prefix_keeps(flight_number) == StrStrip(flight_number)

\* re.match(r'^[A-Z]{2}(\d+)$', flight_number.strip())
_strip_airline_prefix(flight_number) ==
    LET cs == Chars(StrStrip(flight_number))
    IN  IF /\ Len(cs) >= 3
           /\ cs[1] \in UpperLetters /\ cs[2] \in UpperLetters
           /\ \A i \in 3..Len(cs) : cs[i] \in Digits
        THEN FromChars(SubSeq(cs, 3, Len(cs)))
        ELSE StrStrip(flight_number)

_apply_single_normalization(value, func_name) ==
    CASE func_name = "trim" -> StrStrip(value)
      [] func_name = "upper" -> StrUpper(value)
      [] func_name = "lower" -> StrLower(value)
      [] func_name = "stripAirlinePrefix" -> _strip_airline_prefix(value)
      [] func_name = "trimLeadingZeros" ->
             IF LstripZeros(Chars(value)) = << >> THEN "0"
             ELSE FromChars(LstripZeros(Chars(value)))
      [] func_name = "first7" -> StrFirst7(value)
      [] OTHER -> value

RECURSIVE _apply_normalization(_, _)
_apply_normalization(value, normalize_funcs) ==
    IF normalize_funcs = << >> THEN value
    ELSE _apply_normalization(_apply_single_normalization(value, Head(normalize_funcs)),
                              Tail(normalize_funcs))

RECURSIVE NormalizeEach(_, _)
NormalizeEach(values, normalize_funcs) ==
    IF values = << >> THEN << >>
    ELSE <<_apply_normalization(Head(values), normalize_funcs)>>
             \o NormalizeEach(Tail(values), normalize_funcs)

normalize_rule_values(rule_field, values) ==
    IF IsNone(get_mapping(rule_field)) THEN values
    ELSE NormalizeEach(values, get_mapping(rule_field)[1].normalize)

\* getattr(coupon, path, None); an attribute that is None is left out of the
\* record
_get_value_from_path(cpn, path) ==
    IF path \in DOMAIN cpn THEN Some(cpn[path]) ELSE None

\* the attributes CouponData declares as List[str]
list_paths == {"ond_array", "pos_array"}

\* what a value read from a path adds to collected_values: nothing for None
\* and "", the elements of a list, the value of a scalar
collected_from(val, path) ==
    IF IsNone(val) THEN << >>
    ELSE IF path \in list_paths THEN val[1]
    ELSE IF val[1] = "" THEN << >>
    ELSE <<val[1]>>

path_values(cpn, path) == collected_from(_get_value_from_path(cpn, path), path)

\* the loop over mapping['alternativePaths']
RECURSIVE alternative_values(_, _)
alternative_values(cpn, paths) ==
    IF paths = << >> THEN << >>
    ELSE path_values(cpn, Head(paths)) \o alternative_values(cpn, Tail(paths))

\* the fallback path (a scalar attribute) is read when the primary and the
\* alternative paths gave nothing
with_fallback(collected_values, cpn, mapping) ==
    IF collected_values = << >> /\ ~IsNone(mapping.fallbackPath)
    THEN path_values(cpn, mapping.fallbackPath[1])
    ELSE collected_values

\* no value is None, one value a scalar unless the mapping forces a list
returned_value(normalized_values, mapping) ==
    IF normalized_values = << >> THEN FieldNone
    ELSE IF Len(normalized_values) = 1 /\ ~mapping.forceList
    THEN Scalar(normalized_values[1])
    ELSE ListOf(normalized_values)

\* the primary path and the alternative paths are collected together
resolve_mapping(cpn, mapping) ==
    returned_value(
        NormalizeEach(
            with_fallback(path_values(cpn, mapping.inputPath)
                              \o alternative_values(cpn, mapping.alternativePaths),
                          cpn, mapping),
            mapping.normalize),
        mapping)

get_field_value(cpn, rule_field) ==
    IF IsNone(get_mapping(rule_field)) THEN FieldNone
    ELSE resolve_mapping(cpn, get_mapping(rule_field)[1])

normalize_to_list(value) == value.vals

\* a null value is skipped under either policy
check_null_value_allow(value, null_handling, field_name) ==
    IF value.kind = "none" \/ (value.kind = "scalar" /\ value.vals[1] \in {"", "UNKNOWN"})
    THEN Some([passed |-> TRUE, reason |-> Some(Reason("skipped", field_name))])
    ELSE None

\* (result, reason): None when the value is not null
check_null_value(value, null_handling, field_name) ==
    IF value.kind = "none" \/ (value.kind = "scalar" /\ value.vals[1] \in {"", "UNKNOWN"})
    THEN IF null_handling = "skip_and_allow"
         THEN Some([passed |-> TRUE, reason |-> Some(Reason("skipped", field_name))])
         ELSE Some(Failed("is null or unknown", field_name))
    ELSE None

\* every match mode read as any
check_array_match_any(input_values, rule_values, match_mode) ==
    LET input_list == normalize_to_list(input_values)
    IN  IF input_list = << >> THEN TRUE
        ELSE IF rule_values = << >> THEN TRUE
        ELSE \E i \in 1..Len(input_list) : IsIn(input_list[i], rule_values)

check_array_match(input_values, rule_values, match_mode) ==
    LET input_list == normalize_to_list(input_values)
    IN  IF input_list = << >> THEN TRUE
        ELSE IF rule_values = << >> THEN TRUE
        ELSE IF match_mode = "any"
             THEN \E i \in 1..Len(input_list) : IsIn(input_list[i], rule_values)
        ELSE IF match_mode = "all"
             THEN \A i \in 1..Len(input_list) : IsIn(input_list[i], rule_values)
        ELSE IF match_mode = "none"
             THEN ~\E i \in 1..Len(input_list) : IsIn(input_list[i], rule_values)
        ELSE FALSE

(***************************************************************************)
(* EligibilityCheckerV2 (eligibility_checker_v2.py).  A criteria set is    *)
(* [IN, OUT], each an ordered list of (field, rules) entries.              *)
(***************************************************************************)
Entry(field, rules) == [field |-> field, rules |-> rules]

Criteria(in_entries, out_entries) == [IN |-> in_entries, OUT |-> out_entries]

sector_criteria_groups == {"geographic", "booking", "airline_flight"}

contract_field_to_rule_field(contract_field) ==
    CASE contract_field = "RBD" -> Some("rbd")
      [] contract_field = "Marketing Airline" -> Some("marketingAirline")
      [] contract_field = "Marketing_Airline" -> Some("marketingAirline")
      [] contract_field = "Fare_Type" -> Some("fareType")
      [] contract_field = "Fare Type" -> Some("fareType")
      [] contract_field = "Code_Share" -> Some("codeShare")
      [] contract_field = "Alliance" -> Some("alliance")
      [] contract_field = "IATA" -> Some("iataCode")
      [] OTHER -> None

_resolve_rule_field(contract_field) ==
    IF IsNone(contract_field_to_rule_field(contract_field)) THEN contract_field
    ELSE contract_field_to_rule_field(contract_field)[1]

\* the date of the record the window applies to
window_date(cpn, c) ==
    IF c.trigger_type = "FLOWN" THEN cpn.cpn_flown_date ELSE cpn.cpn_sales_date

\* the window with its last day left out
_check_contract_window_exclusive_end(cpn, c) ==
    IF window_date(cpn, c) < c.start_date \/ window_date(cpn, c) >= c.end_date
    THEN Failed("Date not in contract window", "")
    ELSE Passed

_check_contract_window(cpn, c) ==
    IF window_date(cpn, c) < c.start_date \/ window_date(cpn, c) > c.end_date
    THEN Failed("Date not in contract window", "")
    ELSE Passed

to_bool(v) == StrLower(v) \in {"true", "1", "yes", "y"}

\* the rule value of a boolean field: the first element of a non-empty list
_check_boolean_value(coupon_value, in_value, out_value, field_name) ==
    LET c_bool == IF coupon_value.kind = "list" THEN coupon_value.vals # << >>
                  ELSE to_bool(coupon_value.vals[1])
    IN  IF in_value # << >> /\ c_bool # to_bool(in_value[1])
        THEN Failed("!=", field_name)
        ELSE IF out_value # << >> /\ c_bool = to_bool(out_value[1])
        THEN Failed("is excluded", field_name)
        ELSE Passed

_check_list_value(coupon_value, in_values, out_values, field_name, match_mode) ==
    IF out_values # << >> /\ check_array_match(coupon_value, out_values, "any")
    THEN Failed("excluded", field_name)
    ELSE IF in_values = << >> THEN Passed
    ELSE IF IsIn("ALL", in_values) \/ IsIn("ANY", in_values) THEN Passed
    ELSE IF ~check_array_match(coupon_value, in_values, match_mode)
    THEN Failed("not in eligible list", field_name)
    ELSE Passed

\* ranges are [start, end] records of optional day numbers; the date lies
\* in one of them, or there is no range
_check_date_range(coupon_date, in_values, out_values, field_name) ==
    IF in_values = << >> THEN Passed
    ELSE IF \E i \in 1..Len(in_values) :
                /\ (IsNone(in_values[i].start) \/ ~(coupon_date.vals[1] < in_values[i].start[1]))
                /\ (IsNone(in_values[i].end) \/ ~(coupon_date.vals[1] > in_values[i].end[1]))
    THEN Passed
    ELSE Failed("not in specified date ranges", field_name)

\* the wildcard in its lower-case spelling only
is_unknown_exact(coupon_value) ==
    \E i \in 1..Len(coupon_value.vals) : coupon_value.vals[i] = "unknown"

is_unknown(coupon_value) ==
    \E i \in 1..Len(coupon_value.vals) :
        StrLower(StrStrip(coupon_value.vals[i])) = "unknown"

_check_criterion_logic(cpn, rule_field, log_field_name, in_values, out_values) ==
    IF IsNone(get_mapping(rule_field)) THEN Passed
    ELSE LET mapping == get_mapping(rule_field)[1]
             in_norm == IF in_values # << >> THEN normalize_rule_values(rule_field, in_values)
                        ELSE in_values
             out_norm == IF out_values # << >> THEN normalize_rule_values(rule_field, out_values)
                         ELSE out_values
             coupon_value == get_field_value(cpn, rule_field)
             null_check == check_null_value(coupon_value, mapping.nullHandling, log_field_name)
         IN  IF mapping.ignoreCriteria THEN Passed
             ELSE IF mapping.dataType # "date" /\ is_unknown(coupon_value) THEN Passed
             ELSE IF ~IsNone(null_check)
             THEN IF null_check[1].passed THEN Passed ELSE null_check[1]
             ELSE IF mapping.dataType = "boolean"
             THEN _check_boolean_value(coupon_value, in_norm, out_norm, log_field_name)
             ELSE IF mapping.dataType = "date"
             THEN _check_date_range(coupon_value, in_norm, out_norm, log_field_name)
             ELSE _check_list_value(coupon_value, in_norm, out_norm, log_field_name,
                                    mapping.matchMode)

_check_criterion(cpn, contract_field, in_values, out_values) ==
    _check_criterion_logic(cpn, _resolve_rule_field(contract_field), contract_field,
                           in_values, out_values)

_check_criterion_explicit(cpn, rule_field, in_values, out_values) ==
    IF IsNone(get_mapping(rule_field)) THEN Passed
    ELSE _check_criterion_logic(cpn, rule_field, rule_field, in_values, out_values)

\* one side of a criteria set, entry by entry: the IN side is checked with
\* no OUT values and the OUT side with no IN values
check_entry(cpn, entry, is_exclusion) ==
    _check_criterion(cpn, entry.field,
                     IF is_exclusion THEN << >> ELSE entry.rules,
                     IF is_exclusion THEN entry.rules ELSE << >>)

in_sector_group(entry) ==
    LET group == get_criteria_group(_resolve_rule_field(entry.field))
    IN  ~IsNone(group) /\ group[1] \in sector_criteria_groups

\* the reasons of the failing entries the phase evaluates, in order
RECURSIVE check_criteria_dict(_, _, _, _)
check_criteria_dict(cpn, criteria_dict, is_exclusion, phase) ==
    IF criteria_dict = << >> THEN << >>
    ELSE LET entry == Head(criteria_dict)
             evaluated == CASE phase = "sector" -> in_sector_group(entry)
                            [] phase = "trigger" -> ~in_sector_group(entry)
                            [] OTHER -> TRUE
             result == check_entry(cpn, entry, is_exclusion)
         IN  (IF evaluated /\ ~result.passed THEN result.reason ELSE << >>)
                \o check_criteria_dict(cpn, Tail(criteria_dict), is_exclusion, phase)

\* {str(c).strip().upper() for c in contract_airline_codes if c}
contract_airline_codes_upper(codes) ==
    {StrUpper(StrStrip(codes[i])) : i \in {j \in 1..Len(codes) : codes[j] # ""}}

\* Phase 0 rejects: the contract carries airline codes and the record's
\* code, stripped and upper-cased, is none of them
airline_mismatch(cpn, c) ==
    /\ c.airline_codes # << >>
    /\ StrUpper(StrStrip(cpn.cpn_airline_code)) \notin contract_airline_codes_upper(c.airline_codes)

reason_of(result) == IF result.passed THEN << >> ELSE result.reason

check_sector_eligibility(cpn, c) ==
    IF airline_mismatch(cpn, c)
    THEN [eligible |-> FALSE, reasons |-> <<Reason("Sector airline mismatch", "")>>]
    ELSE LET reasons ==
                 reason_of(_check_contract_window(cpn, c))
                   \o (IF c.iata_codes # << >>
                       THEN reason_of(_check_criterion_explicit(cpn, "iataCode", c.iata_codes, << >>))
                       ELSE << >>)
                   \o check_criteria_dict(cpn, c.trigger_eligibility_criteria.IN, FALSE, "sector")
                   \o check_criteria_dict(cpn, c.trigger_eligibility_criteria.OUT, TRUE, "sector")
         IN  [eligible |-> reasons = << >>, reasons |-> reasons]

check_trigger_eligibility(cpn, c, sector_passed) ==
    IF ~sector_passed
    THEN [eligible |-> FALSE, reasons |-> <<Reason("Sector not eligible - trigger skipped", "")>>]
    ELSE LET reasons ==
                 check_criteria_dict(cpn, c.trigger_eligibility_criteria.IN, FALSE, "trigger")
                   \o check_criteria_dict(cpn, c.trigger_eligibility_criteria.OUT, TRUE, "trigger")
         IN  IF reasons = << >>
             THEN [eligible |-> TRUE, reasons |-> <<Reason("All trigger criteria met", "")>>]
             ELSE [eligible |-> FALSE, reasons |-> reasons]

\* the payout criteria without the fallback to the trigger criteria
source_criteria_no_fallback(c) == c.payout_eligibility_criteria

\* the payout criteria, or the trigger criteria when the payout set has
\* neither an IN nor an OUT entry
source_criteria(c) ==
    IF c.payout_eligibility_criteria.IN = << >> /\ c.payout_eligibility_criteria.OUT = << >>
    THEN c.trigger_eligibility_criteria
    ELSE c.payout_eligibility_criteria

check_payout_eligibility(cpn, c, sector_passed) ==
    IF ~sector_passed
    THEN [eligible |-> FALSE, reasons |-> <<Reason("Sector not eligible - payout skipped", "")>>]
    ELSE LET reasons ==
                 check_criteria_dict(cpn, source_criteria(c).IN, FALSE, "payout")
                   \o check_criteria_dict(cpn, source_criteria(c).OUT, TRUE, "payout")
         IN  IF reasons = << >>
             THEN [eligible |-> TRUE, reasons |-> <<Reason("All payout criteria met", "")>>]
             ELSE [eligible |-> FALSE, reasons |-> reasons]

(***************************************************************************)
(* AddonRuleProcessor (addon_processor.py).  A when_to_apply text is known *)
(* by the vocabulary patterns its lower-cased form contains; an exclusion  *)
(* text by the keywords its lower-cased form contains.                     *)
(***************************************************************************)
\* pattern in when_to_apply.lower()
when_patterns(when_to_apply) ==
    CASE when_to_apply = "Apply after base IN/OUT filtering" -> {"after base in/out filtering"}
      [] when_to_apply = "Only for coupons rejected by base rules" -> {"only for coupons rejected"}
      [] when_to_apply = "Codeshare flights" -> {"codeshare"}
      [] when_to_apply = "Operating carrier differs" -> {"operating carrier"}
      [] when_to_apply = "Route/flight constraints" -> {"route/flight constraints"}
      [] OTHER -> {}

\* keyword in exclusion.lower()
exclusion_keywords(exclusion) ==
    CASE exclusion = "OTADOC" -> {"otadoc"}
      [] exclusion = "Disallowed RBD M" -> {"disallowed rbd", "rbd"}
      [] exclusion = "Discount fares PRV" -> {"discount"}
      [] OTHER -> {}

_should_apply_addon_rule(cpn, addon_rule, current_trigger_eligible, current_payout_eligible) ==
    LET when_to_apply == when_patterns(addon_rule.when_to_apply)
        rejected == ~current_trigger_eligible \/ ~current_payout_eligible
    IN  IF "after base in/out filtering" \in when_to_apply /\ rejected THEN TRUE
        ELSE IF "only for coupons rejected" \in when_to_apply /\ rejected THEN TRUE
        ELSE IF /\ ("operating carrier" \in when_to_apply \/ "codeshare" \in when_to_apply)
                /\ \/ cpn.code_share # ""
                   \/ (cpn.operating_airline # ""
                         /\ cpn.operating_airline # cpn.marketing_airline)
        THEN TRUE
        ELSE IF "route/flight constraints" \in when_to_apply THEN TRUE
        ELSE rejected

\* a mapping constrains the marketing flight, the operating airline, the
\* route and the effective dates; an absent constraint is empty
AddonMapping(marketing_flight, operating_airline, route, effective_from, effective_to) ==
    [marketing_flight |-> marketing_flight, operating_airline |-> operating_airline,
     route |-> route, effective_from |-> effective_from, effective_to |-> effective_to]

EmptyMapping == AddonMapping(<< >>, "", << >>, None, None)

_coupon_matches_mapping(cpn, mapping) ==
    /\ mapping.marketing_flight # << >> =>
          \/ mapping.marketing_flight = cpn.flight_number
          \/ mapping.marketing_flight =
                (IF cpn.marketing_airline # "" THEN <<cpn.marketing_airline>> ELSE << >>)
                    \o cpn.flight_number
    /\ mapping.operating_airline # "" => mapping.operating_airline = cpn.operating_airline
    /\ mapping.route # << >> => mapping.route = <<cpn.cpn_origin, "-", cpn.cpn_destination>>
    /\ ~IsNone(mapping.effective_from) => ~(cpn.cpn_flown_date < mapping.effective_from[1])
    /\ ~IsNone(mapping.effective_to) => ~(cpn.cpn_flown_date > mapping.effective_to[1])

RECURSIVE _find_matching_mapping(_, _)
_find_matching_mapping(cpn, mappings) ==
    IF mappings = << >> THEN None
    ELSE IF _coupon_matches_mapping(cpn, Head(mappings)) THEN Some(Head(mappings))
    ELSE _find_matching_mapping(cpn, Tail(mappings))

\* every branch ends in "not excluded"
_is_excluded_by_criterion(cpn, exclusion) ==
    LET exclusion_lower == exclusion_keywords(exclusion)
    IN  IF "otadoc" \in exclusion_lower \/ "other airline document" \in exclusion_lower
        THEN FALSE
        ELSE IF "disallowed rbd" \in exclusion_lower \/ "rbd" \in exclusion_lower THEN FALSE
        ELSE IF "deal" \in exclusion_lower \/ "discount" \in exclusion_lower THEN FALSE
        ELSE FALSE

RECURSIVE _check_exclusions(_, _)
_check_exclusions(cpn, exclusions) ==
    IF exclusions = << >> THEN None
    ELSE IF _is_excluded_by_criterion(cpn, Head(exclusions)) THEN Some(Head(exclusions))
    ELSE _check_exclusions(cpn, Tail(exclusions))

AddonResult(addon_rule, applied, reason, detail, trigger, payout) ==
    [addon_rule_id |-> addon_rule.addon_rule_id, addon_name |-> addon_rule.name,
     applied |-> applied, reason |-> reason, detail |-> detail,
     trigger_eligible |-> trigger, payout_eligible |-> payout]

\* an override that clears the payout flag
override_flags_payout_false(current_trigger_eligible, current_payout_eligible) ==
    [trigger_eligible |-> TRUE, payout_eligible |-> FALSE]

\* the flags an applying addon returns
override_flags(current_trigger_eligible, current_payout_eligible) ==
    [trigger_eligible |-> TRUE, payout_eligible |-> TRUE]

_process_single_addon_rule(cpn, c, addon_rule, current_trigger_eligible, current_payout_eligible) ==
    LET matching_mapping == _find_matching_mapping(cpn, addon_rule.mappings)
        excluded_by_exclusions == _check_exclusions(cpn, addon_rule.exclusions_still_applicable)
        new == override_flags(current_trigger_eligible, current_payout_eligible)
    IN  IF ~_should_apply_addon_rule(cpn, addon_rule, current_trigger_eligible,
                                     current_payout_eligible)
        THEN AddonResult(addon_rule, FALSE, "Addon rule conditions not met", None,
                         current_trigger_eligible, current_payout_eligible)
        ELSE IF IsNone(matching_mapping) \/ matching_mapping[1] = EmptyMapping
        THEN AddonResult(addon_rule, FALSE, "No matching mapping found", None,
                         current_trigger_eligible, current_payout_eligible)
        ELSE IF ~IsNone(excluded_by_exclusions)
        THEN AddonResult(addon_rule, FALSE, "Excluded by", excluded_by_exclusions,
                         current_trigger_eligible, current_payout_eligible)
        ELSE AddonResult(addon_rule, TRUE, "Override applied - matched mapping",
                         matching_mapping, new.trigger_eligible, new.payout_eligible)

\* a detail list that keeps the applied outcomes only
append_detail_applied_only(details, result) ==
    IF result.applied THEN Append(details, result) ELSE details

\* addon_details.append(addon_result)
append_detail(details, result) == Append(details, result)

\* any(detail['applied'] for detail in addon_details)
any_applied(details) == \E i \in 1..Len(details) : details[i].applied

RECURSIVE applied_names(_)
applied_names(details) ==
    IF details = << >> THEN << >>
    ELSE (IF Head(details).applied THEN <<Head(details).addon_name>> ELSE << >>)
            \o applied_names(Tail(details))

\* an update that writes the addon reason over the reasons of the phases
update_contract_analysis_replacing(analysis, result) ==
    [analysis EXCEPT
        !.trigger_eligibility = result.trigger_eligible,
        !.payout_eligibility = result.payout_eligible,
        !.trigger_eligibility_reason =
            <<Reason("Addon rules applied", applied_names(result.addon_details))>>,
        !.payout_eligibility_reason =
            <<Reason("Addon rules applied", applied_names(result.addon_details))>>]

\* the analysis with the flags of the addon result; the names of the addons
\* that applied are appended to the trigger and payout reasons
update_contract_analysis_with_addon(analysis, result) ==
    LET names == applied_names(result.addon_details)
        addon_reason == <<Reason("Addon rules applied", names)>>
        extend == result.addon_applied /\ names # << >>
    IN  [analysis EXCEPT
            !.trigger_eligibility = result.trigger_eligible,
            !.payout_eligibility = result.payout_eligible,
            !.trigger_eligibility_reason = IF extend THEN @ \o addon_reason ELSE @,
            !.payout_eligibility_reason = IF extend THEN @ \o addon_reason ELSE @]

(***************************************************************************)
(* Inputs: records and contracts the specifications draw from.             *)
(***************************************************************************)
\* CouponData with the defaults of the model's field declarations
BaseCoupon ==
    [cpn_airline_code |-> "QR", cpn_RBD |-> "Y", iata |-> "1234567",
     cpn_sales_date |-> 2, cpn_flown_date |-> 2,
     cpn_origin |-> "CAI", cpn_destination |-> "DOH",
     flight_number |-> <<"1234">>, marketing_airline |-> "QR", operating_airline |-> "QR",
     code_share |-> "", fare_type |-> "PUB",
     cpn_revenue_base |-> DecZero, cpn_revenue_yq |-> DecZero,
     cpn_revenue_yr |-> DecZero, cpn_revenue_xt |-> DecZero,
     cpn_total_revenue |-> DecZero]

\* ContractData, valid on the days 2 to 3; the attributes read with
\* hasattr/getattr (airline codes, capping, fixed amount) are absent unless
\* a contract sets them
BaseContract ==
    [contract_id |-> "C-1", start_date |-> 2, end_date |-> 3,
     airline_codes |-> << >>, iata_codes |-> << >>,
     trigger_eligibility_criteria |-> [IN |-> << >>, OUT |-> << >>],
     payout_eligibility_criteria |-> [IN |-> << >>, OUT |-> << >>],
     malformed |-> "",
     addon_rule_cases |-> << >>,
     trigger_type |-> "FLOWN",
     trigger_components |-> <<"BASE">>, trigger_formula |-> None,
     trigger_capping |-> FALSE, trigger_capping_value |-> DecZero,
     payout_type |-> "PERCENTAGE",
     payout_components |-> <<"BASE">>, payout_formula |-> None,
     payout_percentage |-> None,
     payout_capping |-> FALSE, payout_capping_value |-> DecZero,
     payout_fixed_amount |-> None,
     tiers |-> << >>]

\* bracket bounds 0, 1000, .., 1000 * MaxBracket
BracketBounds == {Dec(1000 * i, 0) : i \in 0..MaxBracket}

\* the payout of a row is fixed by its minimum: 1%, 2%, .. and a fixed
\* amount of 50 for the rows that start at the highest bound
RowFor(mn, mx, inf) ==
    IF mn.c = 1000 * MaxBracket
    THEN Row(mn, mx, inf, Dec(50, 0), "AMOUNT")
    ELSE Row(mn, mx, inf, Dec((mn.c \div 1000) + 1, 0), "PERCENT")

TierRows ==
    {RowFor(mn, mx, FALSE) : mn \in BracketBounds, mx \in BracketBounds \ {DecZero}}
      \cup {RowFor(mn, DecZero, TRUE) : mn \in BracketBounds}

RowSeqs == UNION {[1..n -> TierRows] : n \in 1..MaxRows}

\* contract.tiers: one tier holding the rows
TierTables == {<<[rows |-> rs]>> : rs \in RowSeqs}

\* revenues on and between the bracket bounds, and beyond the last one
RevenueGrid == {Dec(500 * i, 0) : i \in 0..(2 * MaxBracket + 1)}

(***************************************************************************)
(* SpecTier: tier lookup and tiered payout over every table of at most     *)
(* MaxRows rows.                                                           *)
(***************************************************************************)
\* the state of process_single_coupon before a contract is looked at
PipelineIdle ==
    /\ sector_eligible = FALSE /\ sector_reasons = << >>
    /\ trigger_eligible = FALSE /\ trigger_reasons = << >>
    /\ payout_eligible = FALSE /\ payout_reasons = << >>
    /\ contract_analysis = None
    /\ final_trigger_eligible = FALSE /\ final_payout_eligible = FALSE
    /\ addon_details = << >> /\ addon_index = 0 /\ addon_result = None
    /\ contract_analyses = << >>
    /\ contract_count = 0 /\ eligible_count = 0
    /\ calls = {}

(***************************************************************************)
(* Calendar dates (datetime.date, timedelta and dateutil's relativedelta   *)
(* over months) for the period calculation of the rule loader.             *)
(***************************************************************************)
Date(y, m, d) == [year |-> y, month |-> m, day |-> d]

is_leap(y) == (y % 4 = 0 /\ y % 100 # 0) \/ y % 400 = 0

days_in_month(y, m) ==
    IF m = 2 THEN (IF is_leap(y) THEN 29 ELSE 28)
    ELSE IF m \in {4, 6, 9, 11} THEN 30 ELSE 31

\* a <= b and a > b of two dates
date_le(a, b) ==
    \/ a.year < b.year
    \/ a.year = b.year /\ a.month < b.month
    \/ a.year = b.year /\ a.month = b.month /\ a.day <= b.day

date_gt(a, b) == ~date_le(a, b)

\* d + timedelta(days=1)
next_day(d) ==
    IF d.day < days_in_month(d.year, d.month) THEN Date(d.year, d.month, d.day + 1)
    ELSE IF d.month < 12 THEN Date(d.year, d.month + 1, 1)
    ELSE Date(d.year + 1, 1, 1)

\* d - timedelta(days=1)
previous_day(d) ==
    IF d.day > 1 THEN Date(d.year, d.month, d.day - 1)
    ELSE IF d.month > 1 THEN Date(d.year, d.month - 1, days_in_month(d.year, d.month - 1))
    ELSE Date(d.year - 1, 12, 31)

\* d + timedelta(days=n), n >= -1
RECURSIVE add_days(_, _)
add_days(d, n) ==
    IF n = 0 THEN d
    ELSE IF n < 0 THEN previous_day(d)
    ELSE add_days(next_day(d), n - 1)

\* the month that lies k months after the month of d
month_after(d, k) ==
    [year |-> d.year + ((d.month - 1 + k) \div 12), month |-> ((d.month - 1 + k) % 12) + 1]

\* d + relativedelta(months=k): the same day of the later month, or the
\* last day of that month when it is shorter
add_months(d, k) ==
    Date(month_after(d, k).year, month_after(d, k).month,
         IF d.day <= days_in_month(month_after(d, k).year, month_after(d, k).month)
         THEN d.day
         ELSE days_in_month(month_after(d, k).year, month_after(d, k).month))

\* next_month_start - timedelta(days=1): the last day of the month of d
month_end(d) == Date(d.year, d.month, days_in_month(d.year, d.month))

\* reset_config as _parse_reset_config returns it
ResetConfig(period, days, months, naming) ==
    [type |-> "TIME_BASED", period |-> period, reset_after_days |-> days,
     reset_after_months |-> months, mtp_naming |-> naming, generate_mtps |-> TRUE]

\* the loader is not calculating periods
PeriodIdle ==
    /\ window_start = Date(2025, 4, 1)
    /\ window_end = Date(2025, 9, 30)
    /\ reset_config = ResetConfig("MONTHLY", 0, 0, "SEQUENTIAL")
    /\ period_current = Date(2025, 4, 1)
    /\ period_index = 1
    /\ periods = << >>
    /\ mtp_contracts = << >>
    /\ mtp_outcome = << >>

\* the cache holds the one contract under evaluation and the loop is at it
SingleContract ==
    /\ all_contracts = <<contract>>
    /\ loop_index = 1
    /\ outcome = None
    /\ results = << >>

\* the mapper holds the configuration and no criterion check was called
FieldIdle ==
    /\ mapper_config = config_mappings
    /\ arg_field = "" /\ arg_in = << >> /\ arg_out = << >>
    /\ field_value = FieldNone
    /\ check_result = Passed

InitTier ==
    /\ coupon \in {[BaseCoupon EXCEPT !.cpn_revenue_base = r, !.cpn_total_revenue = r] :
                       r \in RevenueGrid}
    /\ contract \in {[BaseContract EXCEPT !.payout_type = "TIERED", !.tiers = t] :
                       t \in TierTables}
    /\ pc = "tier_start"
    /\ trigger_value = 0
    /\ payout_value = 0
    /\ applicable_tier = NoRow
    /\ PipelineIdle
    /\ SingleContract
    /\ PeriodIdle
    /\ FieldIdle

\* _apply_tiered_payout's call of _find_applicable_tier
FindApplicableTier ==
    /\ pc = "tier_start"
    /\ applicable_tier' = _find_applicable_tier(
           _calculate_considered_revenue(coupon, contract.payout_components),
           contract.tiers)
    /\ pc' = "tier_found"
    /\ UNCHANGED <<periodVars, loopVars, fieldVars, inputVars, trigger_value, payout_value, phaseVars, addonVars, resultVars, calls>>

\* compute_payout of the TIERED contract
TieredPayout ==
    /\ pc = "tier_found"
    /\ payout_value' = compute_payout(coupon, contract)
    /\ pc' = "tier_done"
    /\ UNCHANGED <<periodVars, loopVars, fieldVars, inputVars, trigger_value, applicable_tier, phaseVars, addonVars, resultVars, calls>>

NextTier == FindApplicableTier \/ TieredPayout

SpecTier == InitTier /\ [][NextTier]_vars

(***************************************************************************)
(* SpecCompute: compute_trigger then compute_payout of one record under    *)
(* one contract.                                                           *)
(***************************************************************************)
ComputeCoupons ==
    {[BaseCoupon EXCEPT !.cpn_revenue_base = b, !.cpn_revenue_yq = y,
                        !.cpn_revenue_xt = x,
                        !.cpn_total_revenue = DecAdd(DecAdd(b, y), x)] :
        b \in {DecZero, Dec(700, 0), Dec(1000, 0), Dec(1234565, 5), Dec(1500, 0)},
        y \in {DecZero, Dec(50, 0)},
        x \in {DecZero, Dec(7, 0)}}

\* one table with a shared bound and a gap-free cover, one with a gap, and
\* one whose first row ends at 500
ComputeTiers ==
    {<<[rows |-> <<RowFor(DecZero, Dec(1000, 0), FALSE), RowFor(Dec(1000, 0), DecZero, TRUE)>>]>>,
     <<[rows |-> <<RowFor(Dec(1000, 0), Dec(1000, 0), FALSE)>>]>>,
     <<[rows |-> <<Row(DecZero, Dec(500, 0), FALSE, Dec(1, 0), "PERCENT"),
                   Row(Dec(500, 0), DecZero, TRUE, Dec(2, 0), "PERCENT")>>]>>}

PayoutKinds ==
    {[BaseContract EXCEPT !.payout_type = "PERCENTAGE", !.payout_percentage = p] :
        p \in {None, Some(Dec(2, 0)), Some(Dec(225, 2))}}
      \cup {[BaseContract EXCEPT !.payout_type = "AMOUNT", !.payout_fixed_amount = a] :
        a \in {None, Some(Dec(50, 0)), Some(Dec(1234565, 5))}}
      \cup {[BaseContract EXCEPT !.payout_type = "TIERED", !.tiers = t] : t \in ComputeTiers}

ComponentLists == {<<"BASE">>, <<"BASE", "YQ">>, <<"YQ", "XT">>, <<"NONE">>}

\* a descriptive formula text and mathematical ones, as token lists: a tier
\* percentage, a name outside the context, a division, a comparison, a call
\* of an unknown function and a text that does not parse
Formulas ==
    {None,
     Some(<<"revenue", "flown", "on", "BASE">>),
     Some(<<"payout", "=", "BASE", "*", "tier_percent">>),
     Some(<<"payout", "=", "BASE", "+", "FOO">>),
     Some(<<"payout", "=", "BASE", "/", "YQ">>),
     Some(<<"payout", "=", "BASE", ">", "YQ">>),
     Some(<<"payout", "=", "BASE", "+", "rebate", "(", "YQ", ")">>),
     Some(<<"payout", "=", "BASE", "*">>)}

\* a cap of 30 on the trigger and on the payout, or no cap
ComputeContracts ==
    {[k EXCEPT !.trigger_components = tc, !.payout_components = tc,
               !.trigger_formula = f, !.payout_formula = f,
               !.trigger_capping = cap, !.trigger_capping_value = Dec(30, 0),
               !.payout_capping = cap, !.payout_capping_value = Dec(30, 0)] :
        k \in PayoutKinds, tc \in ComponentLists, f \in Formulas, cap \in BOOLEAN}

InitCompute ==
    /\ coupon \in ComputeCoupons
    /\ contract \in ComputeContracts
    /\ pc = "compute_start"
    /\ trigger_value = 0
    /\ payout_value = 0
    /\ applicable_tier = NoRow
    /\ PipelineIdle
    /\ SingleContract
    /\ PeriodIdle
    /\ FieldIdle

ComputeTrigger ==
    /\ pc = "compute_start"
    /\ trigger_value' = compute_trigger(coupon, contract)
    /\ pc' = "trigger_computed"
    /\ UNCHANGED <<periodVars, loopVars, fieldVars, inputVars, payout_value, applicable_tier, phaseVars, addonVars, resultVars, calls>>

ComputePayout ==
    /\ pc = "trigger_computed"
    /\ payout_value' = compute_payout(coupon, contract)
    /\ pc' = "payout_computed"
    /\ UNCHANGED <<periodVars, loopVars, fieldVars, inputVars, trigger_value, applicable_tier, phaseVars, addonVars, resultVars, calls>>

NextCompute == ComputeTrigger \/ ComputePayout

SpecCompute == InitCompute /\ [][NextCompute]_vars

(***************************************************************************)
(* process_single_coupon (core.py) for one contract of the cache: the      *)
(* airline pre-check, the three phases, the values, the analysis, the      *)
(* addon rules and the result.                                             *)
(***************************************************************************)
RECURSIVE dict_get(_, _)
dict_get(entries, key) ==
    IF entries = << >> THEN << >>
    ELSE IF Head(entries).field = key THEN Head(entries).rules
    ELSE dict_get(Tail(entries), key)

SeqToSet(seq) == {seq[i] : i \in 1..Len(seq)}

\* set(marketing_airlines) | set(legacy_airlines)
target_airlines(c) ==
    LET marketing_airlines == dict_get(c.trigger_eligibility_criteria.IN, "Marketing Airline")
        legacy_airlines == IF c.airline_codes # << >> THEN c.airline_codes ELSE c.iata_codes
    IN  SeqToSet(marketing_airlines) \cup SeqToSet(legacy_airlines)

\* the contract is skipped unless this holds
passes_precheck(cpn, c) ==
    target_airlines(c) = {} \/ cpn.cpn_airline_code \in target_airlines(c)

\* "; ".join(reasons) if reasons else "Eligible"
joined(reasons) == IF reasons = << >> THEN <<Reason("Eligible", "")>> ELSE reasons

\* a formula text of the analysis: the contract's own, or a generated one
FormulaText(kind, tokens, percentage) ==
    [kind |-> kind, tokens |-> tokens, percentage |-> percentage]

\* core.py lines 389-393
trigger_formula_text(c) ==
    IF ~IsNone(c.trigger_formula) /\ c.trigger_formula[1] # << >>
    THEN FormulaText("contract", c.trigger_formula[1], None)
    ELSE FormulaText("Sum of components", c.trigger_components, None)

\* core.py lines 395-402
payout_formula_text(c) ==
    IF ~IsNone(c.payout_formula) /\ c.payout_formula[1] # << >>
    THEN FormulaText("contract", c.payout_formula[1], None)
    ELSE IF c.payout_type = "PERCENTAGE"
    THEN FormulaText("% of", c.payout_components, c.payout_percentage)
    ELSE FormulaText("Fixed amount based on", c.payout_components, None)

ContractAnalysis(c, tv, pv, se, te, pe, sr, tr, pr) ==
    [contract_id |-> c.contract_id,
     contract_window_date |-> <<c.start_date, c.end_date>>,
     trigger_formula |-> trigger_formula_text(c),
     payout_formula |-> payout_formula_text(c),
     trigger_value |-> tv, payout_value |-> pv,
     sector_eligibility |-> se, trigger_eligibility |-> te, payout_eligibility |-> pe,
     sector_eligibility_reason |-> joined(sr),
     trigger_eligibility_reason |-> joined(tr),
     payout_eligibility_reason |-> joined(pr)]

no_contract_analysis ==
    [contract_id |-> "NO_CONTRACT",
     contract_window_date |-> <<0, MaxDate + 1>>,
     trigger_formula |-> FormulaText("N/A", << >>, None),
     payout_formula |-> FormulaText("N/A", << >>, None),
     trigger_value |-> 0, payout_value |-> 0,
     sector_eligibility |-> FALSE, trigger_eligibility |-> FALSE, payout_eligibility |-> FALSE,
     sector_eligibility_reason |-> <<Reason("Contract not available", "")>>,
     trigger_eligibility_reason |-> <<Reason("Contract not available", "")>>,
     payout_eligibility_reason |-> <<Reason("Contract not available", "")>>]

\* addon rules that run whatever the sector check returned
runs_addons_always(sector_passed) == TRUE

\* the addon rules run for a contract whose sector check passed
runs_addons(sector_passed) == sector_passed

\* line 146: .get('IN', {}) returned None and None has no get
precheck_raises(c) == c.malformed = "IN"

\* eligibility_checker_v2.py lines 145-147: the OUT section is None and the
\* failure is raised again as an EligibilityError
sector_raises(c) == c.malformed = "OUT"

\* str(e) of the exception the step raised
error_text(c) ==
    IF precheck_raises(c) THEN "'NoneType' object has no attribute 'get'"
    ELSE "Sector eligibility check failed: 'NoneType' object has no attribute 'items'"

\* lines 265-290
failed_contract_analysis(c) ==
    [contract_id |-> c.contract_id,
     contract_window_date |-> <<c.start_date, c.end_date>>,
     trigger_formula |-> FormulaText("Error in processing", << >>, None),
     payout_formula |-> FormulaText("Error in processing", << >>, None),
     trigger_value |-> 0, payout_value |-> 0,
     sector_eligibility |-> FALSE, trigger_eligibility |-> FALSE, payout_eligibility |-> FALSE,
     sector_eligibility_reason |-> <<Reason("Processing error", error_text(c))>>,
     trigger_eligibility_reason |-> <<Reason("Processing error", error_text(c))>>,
     payout_eligibility_reason |-> <<Reason("Processing error", error_text(c))>>]

\* f'Contract_{contract_count}'
contract_key(count) == <<"Contract", count>>

\* a dict that keeps the first value stored under a key
dict_set_keep(entries, key, analysis) ==
    IF \E i \in 1..Len(entries) : entries[i].key = key
    THEN entries
    ELSE Append(entries, [key |-> key, analysis |-> analysis])

\* contract_analyses[key] = analysis: the value of an existing key is
\* replaced in place, a new key is added last
dict_set(entries, key, analysis) ==
    IF \E i \in 1..Len(entries) : entries[i].key = key
    THEN [i \in 1..Len(entries) |->
             IF entries[i].key = key THEN [key |-> key, analysis |-> analysis]
             ELSE entries[i]]
    ELSE Append(entries, [key |-> key, analysis |-> analysis])

\* lines 142-162: skip the contract, or count it
PreCheck ==
    /\ pc = "start"
    /\ ~precheck_raises(contract)
    /\ IF passes_precheck(coupon, contract)
       THEN /\ contract_count' = contract_count + 1
            /\ pc' = "sector"
       ELSE /\ contract_count' = contract_count
            /\ pc' = "finish"
    /\ UNCHANGED <<periodVars, loopVars, fieldVars, inputVars, valueVars, phaseVars, addonVars, contract_analysis,
                   contract_analyses, eligible_count, calls>>

\* a flag that keeps what the previous contract left in it
kept_flag(flag) == flag

\* lines 175-178: the trigger and payout flags start false for every contract
cleared_flag(flag) == FALSE

\* lines 171-182
SectorCheck ==
    /\ pc = "sector"
    /\ ~sector_raises(contract)
    /\ sector_eligible' = check_sector_eligibility(coupon, contract).eligible
    /\ sector_reasons' = check_sector_eligibility(coupon, contract).reasons
    /\ trigger_eligible' = cleared_flag(trigger_eligible) /\ trigger_reasons' = << >>
    /\ payout_eligible' = cleared_flag(payout_eligible) /\ payout_reasons' = << >>
    /\ trigger_value' = 0 /\ payout_value' = 0
    /\ calls' = calls \cup {"check_sector_eligibility"}
    /\ pc' = "sector_done"
    /\ UNCHANGED <<periodVars, loopVars, fieldVars, inputVars, applicable_tier, addonVars, resultVars>>

\* lines 184-192
ComputeValues ==
    /\ pc = "sector_done"
    /\ sector_eligible
    /\ trigger_value' = compute_trigger(coupon, contract)
    /\ payout_value' = compute_payout(coupon, contract)
    /\ calls' = calls \cup {"compute_trigger", "compute_payout"}
    /\ pc' = "trigger"
    /\ UNCHANGED <<periodVars, loopVars, fieldVars, inputVars, applicable_tier, phaseVars, addonVars, resultVars>>

\* lines 203-206
SkipPhases ==
    /\ pc = "sector_done"
    /\ ~sector_eligible
    /\ trigger_reasons' = <<Reason("Skipped due to sector ineligibility", "")>>
    /\ payout_reasons' = <<Reason("Skipped due to sector ineligibility", "")>>
    /\ pc' = "assemble"
    /\ UNCHANGED <<periodVars, loopVars, fieldVars, inputVars, valueVars, sector_eligible, sector_reasons, trigger_eligible,
                   payout_eligible, addonVars, resultVars, calls>>

\* lines 194-197
TriggerCheck ==
    /\ pc = "trigger"
    /\ trigger_eligible' = check_trigger_eligibility(coupon, contract, sector_eligible).eligible
    /\ trigger_reasons' = check_trigger_eligibility(coupon, contract, sector_eligible).reasons
    /\ calls' = calls \cup {"check_trigger_eligibility"}
    /\ pc' = "payout"
    /\ UNCHANGED <<periodVars, loopVars, fieldVars, inputVars, valueVars, sector_eligible, sector_reasons, payout_eligible,
                   payout_reasons, addonVars, resultVars>>

\* lines 199-202
PayoutCheck ==
    /\ pc = "payout"
    /\ payout_eligible' = check_payout_eligibility(coupon, contract, sector_eligible).eligible
    /\ payout_reasons' = check_payout_eligibility(coupon, contract, sector_eligible).reasons
    /\ calls' = calls \cup {"check_payout_eligibility"}
    /\ pc' = "assemble"
    /\ UNCHANGED <<periodVars, loopVars, fieldVars, inputVars, valueVars, sector_eligible, sector_reasons, trigger_eligible,
                   trigger_reasons, addonVars, resultVars>>

\* lines 208-247
Assemble ==
    /\ pc = "assemble"
    /\ eligible_count' = IF trigger_eligible THEN eligible_count + 1 ELSE eligible_count
    /\ contract_analysis' =
          Some(ContractAnalysis(contract, trigger_value, payout_value, sector_eligible,
                                trigger_eligible, payout_eligible, sector_reasons,
                                trigger_reasons, payout_reasons))
    /\ pc' = IF runs_addons(sector_eligible) THEN "addons" ELSE "store"
    /\ UNCHANGED <<periodVars, loopVars, fieldVars, inputVars, valueVars, phaseVars, addonVars, contract_analyses,
                   contract_count, calls>>

\* process_addon_rules, lines 41-56: no addon rules, or the loop starts
StartAddons ==
    /\ pc = "addons"
    /\ calls' = calls \cup {"process_addon_rules"}
    /\ IF contract.addon_rule_cases = << >>
       THEN /\ addon_result' = Some([trigger_eligible |-> trigger_eligible,
                                     payout_eligible |-> payout_eligible,
                                     addon_applied |-> FALSE, addon_details |-> << >>])
            /\ pc' = "addons_done"
            /\ UNCHANGED <<final_trigger_eligible, final_payout_eligible, addon_details,
                           addon_index>>
       ELSE /\ final_trigger_eligible' = trigger_eligible
            /\ final_payout_eligible' = payout_eligible
            /\ addon_details' = << >>
            /\ addon_index' = 1
            /\ pc' = "addon_loop"
            /\ UNCHANGED addon_result
    /\ UNCHANGED <<periodVars, loopVars, fieldVars, inputVars, valueVars, phaseVars, resultVars>>

\* process_addon_rules, lines 58-69: one addon rule
AddonStep ==
    /\ pc = "addon_loop"
    /\ addon_index <= Len(contract.addon_rule_cases)
    /\ LET result == _process_single_addon_rule(coupon, contract,
                         contract.addon_rule_cases[addon_index],
                         final_trigger_eligible, final_payout_eligible)
       IN  /\ final_trigger_eligible' =
                 IF result.applied THEN result.trigger_eligible ELSE final_trigger_eligible
           /\ final_payout_eligible' =
                 IF result.applied THEN result.payout_eligible ELSE final_payout_eligible
           /\ addon_details' = append_detail(addon_details, result)
    /\ addon_index' = addon_index + 1
    /\ UNCHANGED <<periodVars, loopVars, fieldVars, inputVars, pc, valueVars, phaseVars, addon_result, resultVars, calls>>

\* process_addon_rules, lines 71-76
AddonsReturn ==
    /\ pc = "addon_loop"
    /\ addon_index > Len(contract.addon_rule_cases)
    /\ addon_result' = Some([trigger_eligible |-> final_trigger_eligible,
                             payout_eligible |-> final_payout_eligible,
                             addon_applied |-> any_applied(addon_details),
                             addon_details |-> addon_details])
    /\ pc' = "addons_done"
    /\ UNCHANGED <<periodVars, loopVars, fieldVars, inputVars, valueVars, phaseVars, final_trigger_eligible,
                   final_payout_eligible, addon_details, addon_index, resultVars, calls>>

\* core.py lines 252-257
ApplyAddonResult ==
    /\ pc = "addons_done"
    /\ contract_analysis' =
          IF addon_result[1].addon_applied
          THEN Some(update_contract_analysis_with_addon(contract_analysis[1], addon_result[1]))
          ELSE contract_analysis
    /\ pc' = "store"
    /\ UNCHANGED <<periodVars, loopVars, fieldVars, inputVars, valueVars, phaseVars, addonVars, contract_analyses,
                   contract_count, eligible_count, calls>>

\* contract_analyses[f'Contract_{contract_count}'] = contract_analysis
Store ==
    /\ pc = "store"
    /\ contract_analyses' = dict_set(contract_analyses, contract_key(contract_count),
                                     contract_analysis[1])
    /\ pc' = "finish"
    /\ UNCHANGED <<periodVars, loopVars, fieldVars, inputVars, valueVars, phaseVars, addonVars, contract_analysis,
                   contract_count, eligible_count, calls>>

\* the call returned the value, or raised the exception
Returned(value) == [kind |-> "returned", value |-> value]

Raised(exception) == [kind |-> "raised", value |-> exception]

\* what the caller reads of the ProcessingResult
ProcessingResult(analyses, processed, eligible) ==
    [contract_analyses |-> analyses, total_contracts_processed |-> processed,
     eligible_contracts |-> eligible]

\* lines 296-341, after the last contract: the placeholder when no analysis
\* was stored, and the result
Finish ==
    /\ pc = "finish"
    /\ loop_index >= Len(all_contracts)
    /\ contract_analyses' =
          IF contract_analyses = << >>
          THEN <<[key |-> <<"No_Contract", 0>>, analysis |-> no_contract_analysis]>>
          ELSE contract_analyses
    /\ outcome' = Some(Returned(ProcessingResult(contract_analyses', contract_count,
                                                  eligible_count)))
    /\ pc' = "done"
    /\ UNCHANGED <<periodVars, all_contracts, loop_index, results, fieldVars, inputVars, valueVars, phaseVars,
                   addonVars, contract_analysis, contract_count, eligible_count, calls>>

Next ==
    \/ PreCheck \/ SectorCheck \/ ComputeValues \/ SkipPhases \/ TriggerCheck
    \/ PayoutCheck \/ Assemble \/ StartAddons \/ AddonStep \/ AddonsReturn
    \/ ApplyAddonResult \/ Store \/ Finish

(***************************************************************************)
(* Spec: records and contracts that exercise the pre-check and the phases. *)
(***************************************************************************)
AddonRule(id, when_to_apply, mappings, exclusions) ==
    [addon_rule_id |-> id, name |-> id, when_to_apply |-> when_to_apply,
     mappings |-> mappings, exclusions_still_applicable |-> exclusions]

\* rescues a rejected record operated by BA
RescueAddon ==
    AddonRule("A1", "Only for coupons rejected by base rules",
              <<AddonMapping(<< >>, "BA", << >>, None, None)>>, << >>)

PipelineCoupons ==
    {[BaseCoupon EXCEPT !.cpn_airline_code = a, !.cpn_RBD = r, !.fare_type = f,
                        !.cpn_flown_date = d, !.cpn_sales_date = sd,
                        !.operating_airline = "BA",
                        !.cpn_revenue_base = Dec(1000, 0),
                        !.cpn_total_revenue = Dec(1000, 0)] :
        a \in {"QR", "qr", "EK"}, r \in {"Y", "M", ""}, f \in {"PUB", "PRV"},
        d \in 1..MaxDate, sd \in {2, MaxDate}}

TriggerCriteria ==
    {Criteria(<< >>, << >>),
     Criteria(<<Entry("RBD", <<"Y">>)>>, << >>),
     Criteria(<<Entry("RBD", <<"Y">>)>>, <<Entry("RBD", <<"M">>)>>),
     Criteria(<<Entry("Fare_Type", <<"PUB">>)>>, << >>),
     Criteria(<<Entry("Fare_Type", <<"PUB">>)>>, <<Entry("Fare_Type", <<"PRV">>)>>),
     Criteria(<<Entry("Marketing Airline", <<"QR", "EK">>)>>,
              <<Entry("Alliance", <<"ONEWORLD">>)>>)}

PayoutCriteria ==
    {Criteria(<< >>, << >>),
     Criteria(<<Entry("Fare_Type", <<"PRV">>)>>, << >>),
     Criteria(<<Entry("RBD", <<"M">>)>>, <<Entry("RBD", <<"Y">>)>>)}

PipelineContracts ==
    {[BaseContract EXCEPT !.trigger_type = tt, !.airline_codes = ac, !.iata_codes = ic,
                          !.trigger_eligibility_criteria = tc,
                          !.payout_eligibility_criteria = pcr,
                          !.addon_rule_cases = ar,
                          !.payout_percentage = Some(Dec(2, 0))] :
        tt \in {"FLOWN", "SALES"}, ac \in {<< >>, <<"QR">>, <<"qr ">>},
        ic \in {<< >>, <<"12345678">>}, tc \in TriggerCriteria, pcr \in PayoutCriteria,
        ar \in {<< >>, <<RescueAddon>>}}

\* records of two carriers and of no carrier, with a public or private fare
LoopCoupons ==
    {[BaseCoupon EXCEPT !.cpn_airline_code = a, !.fare_type = f,
                        !.operating_airline = "BA",
                        !.cpn_revenue_base = Dec(1000, 0),
                        !.cpn_total_revenue = Dec(1000, 0)] :
        a \in {"QR", "EK", ""}, f \in {"PUB", "PRV"}}

LoopContract(id) ==
    [BaseContract EXCEPT !.contract_id = id, !.payout_percentage = Some(Dec(2, 0))]

\* a contract without restriction, one for public fares that an addon rule
\* can rescue, one per way of restricting the airline, one that names
\* agencies only, and two whose trigger criteria hold a None section
LoopContracts ==
    {LoopContract("C-open"),
     [LoopContract("C-rescue") EXCEPT
         !.trigger_eligibility_criteria = Criteria(<<Entry("Fare_Type", <<"PUB">>)>>, << >>),
         !.addon_rule_cases = <<RescueAddon>>],
     [LoopContract("C-legacy") EXCEPT !.airline_codes = <<"QR">>],
     [LoopContract("C-marketing") EXCEPT
         !.trigger_eligibility_criteria =
             Criteria(<<Entry("Marketing Airline", <<"EK">>)>>, << >>)],
     [LoopContract("C-agency") EXCEPT !.iata_codes = <<"1234567">>],
     [LoopContract("C-none-in") EXCEPT !.malformed = "IN"],
     [LoopContract("C-none-out") EXCEPT !.malformed = "OUT"]}

LoopCaches == UNION {[1..n -> LoopContracts] : n \in 0..MaxContracts}

Init ==
    /\ coupon \in PipelineCoupons
    /\ contract \in PipelineContracts
    /\ pc = "start"
    /\ trigger_value = 0
    /\ payout_value = 0
    /\ applicable_tier = NoRow
    /\ PipelineIdle
    /\ SingleContract
    /\ PeriodIdle
    /\ FieldIdle

Spec == Init /\ [][Next]_vars

(***************************************************************************)
(* SpecLoop: calls of process_single_coupon over a cache of up to          *)
(* MaxContracts contracts, some of them malformed.                         *)
(***************************************************************************)
\* exceptions.py: an exception is its class and the parts of its message
ValidationError(message) == [class |-> "ValidationError", message |-> message]

RuleEngineError(message) == [class |-> "RuleEngineError", message |-> message]

\* core.py lines 343-376: the record, or the ValidationError of line 376
_validate_coupon_input(coupon_data) ==
    IF coupon_data.cpn_airline_code = ""
    THEN Raised(ValidationError(<<"Coupon validation failed", "Airline code is required">>))
    ELSE Returned(coupon_data)

\* lines 343-345: whatever was raised reaches the caller as a RuleEngineError
reraised(exception) == RuleEngineError(<<"Failed to process coupon">> \o exception.message)

\* lines 113-140: validation, the cache and the counters of the call
BeginCall ==
    /\ pc = "call"
    /\ IF _validate_coupon_input(coupon).kind = "raised"
       THEN /\ outcome' = Some(Raised(reraised(_validate_coupon_input(coupon).value)))
            /\ pc' = "raised"
            /\ UNCHANGED <<contract, loop_index, resultVars>>
       ELSE IF all_contracts = << >>
       THEN /\ outcome' = Some(Raised(reraised(RuleEngineError(<<"No contracts available">>))))
            /\ pc' = "raised"
            /\ UNCHANGED <<contract, loop_index, resultVars>>
       ELSE /\ contract_analyses' = << >>
            /\ contract_count' = 0
            /\ eligible_count' = 0
            /\ loop_index' = 1
            /\ contract' = all_contracts[1]
            /\ outcome' = None
            /\ pc' = "start"
            /\ UNCHANGED contract_analysis
    /\ UNCHANGED <<periodVars, all_contracts, results, fieldVars, coupon, valueVars, phaseVars, addonVars,
                   calls>>

\* lines 261-293: the pre-check raised, before the contract was counted
PreCheckRaises ==
    /\ pc = "start"
    /\ precheck_raises(contract)
    /\ contract_analyses' = dict_set(contract_analyses, contract_key(contract_count),
                                     failed_contract_analysis(contract))
    /\ pc' = "finish"
    /\ UNCHANGED <<periodVars, loopVars, fieldVars, inputVars, valueVars, phaseVars, addonVars,
                   contract_analysis, contract_count, eligible_count, calls>>

\* lines 261-293: the sector check raised, after the contract was counted
SectorRaises ==
    /\ pc = "sector"
    /\ sector_raises(contract)
    /\ contract_analyses' = dict_set(contract_analyses, contract_key(contract_count),
                                     failed_contract_analysis(contract))
    /\ calls' = calls \cup {"check_sector_eligibility"}
    /\ pc' = "finish"
    /\ UNCHANGED <<periodVars, loopVars, fieldVars, inputVars, valueVars, phaseVars, addonVars,
                   contract_analysis, contract_count, eligible_count>>

\* line 142: the loop moves to the next contract of the cache
NextContract ==
    /\ pc = "finish"
    /\ loop_index < Len(all_contracts)
    /\ loop_index' = loop_index + 1
    /\ contract' = all_contracts[loop_index + 1]
    /\ pc' = "start"
    /\ UNCHANGED <<periodVars, all_contracts, outcome, results, fieldVars, coupon, valueVars, phaseVars,
                   addonVars, resultVars, calls>>

\* the caller keeps what it got and calls again with a record
NextCall ==
    /\ pc \in {"done", "raised"}
    /\ Len(results) + 1 < MaxCalls
    /\ results' = Append(results, [coupon |-> coupon, outcome |-> outcome[1]])
    /\ coupon' \in LoopCoupons
    /\ outcome' = None
    /\ pc' = "call"
    /\ UNCHANGED <<periodVars, all_contracts, loop_index, fieldVars, contract, valueVars, phaseVars,
                   addonVars, resultVars, calls>>

NextLoop ==
    \/ BeginCall \/ PreCheck \/ PreCheckRaises \/ SectorCheck \/ SectorRaises
    \/ ComputeValues \/ SkipPhases \/ TriggerCheck \/ PayoutCheck \/ Assemble
    \/ StartAddons \/ AddonStep \/ AddonsReturn \/ ApplyAddonResult \/ Store
    \/ NextContract \/ Finish \/ NextCall

InitLoop ==
    /\ coupon \in LoopCoupons
    /\ all_contracts \in LoopCaches
    /\ contract = BaseContract
    /\ loop_index = 0
    /\ outcome = None
    /\ results = << >>
    /\ pc = "call"
    /\ trigger_value = 0
    /\ payout_value = 0
    /\ applicable_tier = NoRow
    /\ PipelineIdle
    /\ FieldIdle
    /\ PeriodIdle

SpecLoop == InitLoop /\ [][NextLoop]_vars

(***************************************************************************)
(* SpecPeriods: RuleLoader._calculate_time_based_periods over a contract   *)
(* window, then _generate_mtps_for_rollback over the periods.              *)
(***************************************************************************)
\* rule_loader.py, the safety checks of the loops
day_loop_limit == 1000

month_loop_limit == 100

\* reset_config.get('reset_after_days') and .get('reset_after_months')
by_days(cfg) == cfg.period = "CUSTOM" /\ cfg.reset_after_days # 0

by_months(cfg) ==
    cfg.period = "CUSTOM" /\ cfg.reset_after_days = 0 /\ cfg.reset_after_months # 0

\* the period types that enter a loop
has_loop(cfg) == cfg.period \in {"MONTHLY", "QUARTERLY"} \/ by_days(cfg) \/ by_months(cfg)

\* the end of the period that starts at current, before the cap
uncapped_end(current, cfg) ==
    IF cfg.period = "MONTHLY" THEN month_end(current)
    ELSE IF cfg.period = "QUARTERLY" THEN previous_day(add_months(current, 3))
    ELSE IF by_days(cfg) THEN add_days(current, cfg.reset_after_days - 1)
    ELSE previous_day(add_months(current, cfg.reset_after_months))

\* if period_end > end_date: period_end = end_date
period_end(current, cfg, end_date) ==
    IF date_gt(uncapped_end(current, cfg), end_date) THEN end_date
    ELSE uncapped_end(current, cfg)

\* the index at which the loop of the period type breaks
loop_limit(cfg) ==
    IF cfg.period = "MONTHLY" \/ by_days(cfg) THEN day_loop_limit ELSE month_loop_limit

\* while current <= end_date, and no break
loop_continues(current, index, cfg, end_date) ==
    has_loop(cfg) /\ date_le(current, end_date) /\ index <= loop_limit(cfg)

\* one iteration of the loop of the period type
PeriodStep ==
    /\ pc = "periods"
    /\ loop_continues(period_current, period_index, reset_config, window_end)
    /\ periods' = Append(periods,
                         [index |-> period_index, start |-> period_current,
                          end |-> period_end(period_current, reset_config, window_end)])
    /\ period_current' = next_day(period_end(period_current, reset_config, window_end))
    /\ period_index' = period_index + 1
    /\ UNCHANGED <<window_start, window_end, reset_config, mtp_contracts, mtp_outcome,
                   loopVars, fieldVars, inputVars, pc, valueVars, phaseVars, addonVars,
                   resultVars, calls>>

\* return periods
PeriodsReturn ==
    /\ pc = "periods"
    /\ ~loop_continues(period_current, period_index, reset_config, window_end)
    /\ pc' = "periods_returned"
    /\ UNCHANGED <<periodVars, loopVars, fieldVars, inputVars, valueVars, phaseVars,
                   addonVars, resultVars, calls>>

\* models.py lines 300-345: the fields ContractData declares
ContractDataFields ==
    {"document_name", "document_id", "contract_name", "contract_id", "rule_id",
     "ruleset_id", "source_name", "start_date", "end_date", "trigger_type",
     "trigger_components", "trigger_formula", "trigger_eligibility_criteria",
     "payout_type", "payout_components", "payout_formula", "payout_percentage",
     "payout_eligibility_criteria", "currency", "tiers", "creation_date", "update_date",
     "iata_codes", "countries", "addon_rule_cases"}

\* the fields an assignment to a ContractData object may name: the class
\* sets no Config, and a pydantic model without extra = allow raises
\* ValueError for any other name
assignable_fields == ContractDataFields

\* the rule_id of the period's rule under the naming
mtp_rule_id(period_info, naming) ==
    IF naming = "DATE_BASED"
    THEN <<"RULE", period_info.start.year, period_info.start.month>>
    ELSE <<"RULE", "MTP", period_info.index>>

\* lines 1071-1077: the period fields, assigned to the parsed contract
mtp_contract(period_info, cfg) ==
    [rule_id |-> mtp_rule_id(period_info, cfg.mtp_naming),
     contract_id |-> mtp_rule_id(period_info, cfg.mtp_naming),
     start_date |-> period_info.start, end_date |-> period_info.end,
     evaluation_basis |-> "ROLL_BACK_TO_ZERO", reset_config |-> cfg,
     mtp_period_index |-> period_info.index,
     period_start_date |-> period_info.start, period_end_date |-> period_info.end]

\* lines 1105-1110: the single contract of the whole window
fallback_contract(start_date, end_date, cfg) ==
    [rule_id |-> <<"RULE">>, contract_id |-> <<"RULE">>,
     start_date |-> start_date, end_date |-> end_date,
     evaluation_basis |-> "ROLL_BACK_TO_ZERO", reset_config |-> cfg]

\* lines 996-1078, the try block: one contract per period, unless an
\* assignment raises
GenerateMtps ==
    /\ pc = "periods_returned"
    /\ IF {"evaluation_basis", "reset_config", "mtp_period_index", "period_start_date",
           "period_end_date"} \subseteq assignable_fields
       THEN /\ mtp_contracts' = [k \in 1..Len(periods) |-> mtp_contract(periods[k], reset_config)]
            /\ mtp_outcome' = Some(Returned(mtp_contracts'))
            /\ pc' = "mtps_done"
       ELSE /\ mtp_contracts' = << >>
            /\ mtp_outcome' = None
            /\ pc' = "mtps_handler"
    /\ UNCHANGED <<window_start, window_end, reset_config, period_current, period_index,
                   periods, loopVars, fieldVars, inputVars, valueVars, phaseVars, addonVars,
                   resultVars, calls>>

\* lines 1102-1110, the handler: the rule is parsed again as one contract
\* and the same assignment is made outside any try
MtpsFallback ==
    /\ pc = "mtps_handler"
    /\ IF {"evaluation_basis", "reset_config"} \subseteq assignable_fields
       THEN /\ mtp_contracts' = <<fallback_contract(window_start, window_end, reset_config)>>
            /\ mtp_outcome' = Some(Returned(mtp_contracts'))
       ELSE /\ mtp_contracts' = << >>
            /\ mtp_outcome' =
                  Some(Raised([class |-> "ValueError",
                               message |-> <<"\"ContractData\" object has no field",
                                             "evaluation_basis">>]))
    /\ pc' = "mtps_done"
    /\ UNCHANGED <<window_start, window_end, reset_config, period_current, period_index,
                   periods, loopVars, fieldVars, inputVars, valueVars, phaseVars, addonVars,
                   resultVars, calls>>

NextPeriods == PeriodStep \/ PeriodsReturn \/ GenerateMtps \/ MtpsFallback

\* windows within a year, of one day, from a month's last day, over a leap
\* day, over a year's end, and of more than a hundred months
PeriodWindows ==
    {<<Date(2025, 4, 1), Date(2025, 9, 30)>>,
     <<Date(2025, 4, 1), Date(2025, 4, 1)>>,
     <<Date(2025, 1, 31), Date(2025, 9, 30)>>,
     <<Date(2024, 2, 29), Date(2025, 3, 15)>>,
     <<Date(2024, 12, 15), Date(2025, 1, 14)>>,
     <<Date(2025, 4, 1), Date(2033, 9, 30)>>}

ResetConfigs ==
    {ResetConfig(p, 0, 0, n) : p \in {"MONTHLY", "QUARTERLY"}, n \in {"SEQUENTIAL", "DATE_BASED"}}
       \cup {ResetConfig("CUSTOM", d, m, "SEQUENTIAL") : d \in {0, 1, 15}, m \in {1, 2}}

InitPeriods ==
    /\ \E w \in PeriodWindows : window_start = w[1] /\ window_end = w[2]
    /\ reset_config \in ResetConfigs
    /\ period_current = window_start
    /\ period_index = 1
    /\ periods = << >>
    /\ mtp_contracts = << >>
    /\ mtp_outcome = None
    /\ pc = "periods"
    /\ coupon = BaseCoupon
    /\ contract = BaseContract
    /\ trigger_value = 0
    /\ payout_value = 0
    /\ applicable_tier = NoRow
    /\ PipelineIdle
    /\ SingleContract
    /\ FieldIdle

SpecPeriods == InitPeriods /\ [][NextPeriods]_vars

(***************************************************************************)
(* SpecAddon: the same pipeline over contracts with addon rule lists.      *)
(***************************************************************************)
\* applies to code-share records on QR1234 CAI-DOH flown from day 2, unless
\* the RBD is disallowed
CodeshareAddon ==
    AddonRule("A2", "Codeshare flights",
              <<AddonMapping(<<"QR", "1234">>, "", <<"CAI", "-", "DOH">>, Some(2), None)>>,
              <<"Disallowed RBD M">>)

\* always attempted; its second mapping holds flight 1234 up to day 1
RouteAddon ==
    AddonRule("A3", "Route/flight constraints",
              <<AddonMapping(<<"9999">>, "", << >>, None, None),
                AddonMapping(<<"1234">>, "", << >>, None, Some(1))>>,
              <<"OTADOC">>)

\* no when_to_apply text and a mapping without constraints
BareAddon == AddonRule("A4", "", <<EmptyMapping>>, << >>)

AddonKinds == {RescueAddon, CodeshareAddon, RouteAddon, BareAddon}

AddonLists == UNION {[1..n -> AddonKinds] : n \in 0..MaxAddons}

AddonCoupons ==
    {[BaseCoupon EXCEPT !.cpn_RBD = r, !.fare_type = f, !.code_share = cs,
                        !.operating_airline = oa, !.cpn_flown_date = d,
                        !.cpn_revenue_base = Dec(1000, 0),
                        !.cpn_total_revenue = Dec(1000, 0)] :
        r \in {"Y", "M"}, f \in {"PUB", "PRV"}, cs \in {"", "Y"}, oa \in {"QR", "BA"},
        d \in {1, 2}}

AddonContracts ==
    {[BaseContract EXCEPT !.start_date = 1,
                          !.airline_codes = ac,
                          !.trigger_eligibility_criteria = tc,
                          !.payout_eligibility_criteria = pcr,
                          !.addon_rule_cases = ar,
                          !.payout_percentage = Some(Dec(2, 0))] :
        ac \in {<< >>, <<"EK">>},
        tc \in {Criteria(<< >>, << >>), Criteria(<<Entry("Fare_Type", <<"PUB">>)>>, << >>),
                Criteria(<<Entry("Marketing Airline", <<"QR">>)>>,
                         <<Entry("Code_Share", <<"Y">>)>>)},
        pcr \in {Criteria(<< >>, << >>), Criteria(<<Entry("RBD", <<"M">>)>>, << >>)},
        ar \in AddonLists}

InitAddon ==
    /\ coupon \in AddonCoupons
    /\ contract \in AddonContracts
    /\ pc = "start"
    /\ trigger_value = 0
    /\ payout_value = 0
    /\ applicable_tier = NoRow
    /\ PipelineIdle
    /\ SingleContract
    /\ PeriodIdle
    /\ FieldIdle

SpecAddon == InitAddon /\ [][Next]_vars

(***************************************************************************)
(* SpecField: get_field_value and then the criterion check of one rule     *)
(* field of one record, under a configuration that maps the field.         *)
(***************************************************************************)
\* the attribute set to the value, or left out (None)
WithAttr(r, path, opt) ==
    IF IsNone(opt) THEN [f \in DOMAIN r \ {path} |-> r[f]]
    ELSE [f \in DOMAIN r |-> IF f = path THEN opt[1] ELSE r[f]]

\* the attributes of a record the mapped fields read; here the flight
\* number is the string of the record
FieldCoupon ==
    [marketing_airline |-> "QR", operating_airline |-> "EK", cpn_airline_code |-> "EY",
     flight_number |-> "1234", ond_array |-> <<"CAI-DOH">>]

NullHandlings == {"skip_and_allow", "strict_fail"}

MatchModes == {"any", "all", "none"}

\* the mapper holds one entry and the check is called for its rule field
FieldCase(mapping, cpn, ins, outs) ==
    /\ mapper_config = <<mapping>>
    /\ arg_field = mapping.ruleField
    /\ coupon = cpn
    /\ arg_in = ins
    /\ arg_out = outs

\* the marketing airline as a string or a boolean field, normalized or not,
\* with or without the operating airline as alternative path and the
\* validating airline as fallback path
AirlineCases ==
    \E dt \in {"string", "boolean"}, mode \in MatchModes, nh \in NullHandlings,
       norm \in {<<"trim", "upper">>, << >>}, ig \in BOOLEAN,
       alt \in {<< >>, <<"operating_airline">>},
       fb \in {None, Some("cpn_airline_code")},
       mkt \in {None, Some(""), Some(" "), Some("QR"), Some(" Unknown"), Some("UNKNOWN")},
       op \in {None, Some("EK"), Some("unknown")},
       ins \in {<< >>, <<"QR">>, <<"EK", "QR">>, <<"ALL">>},
       outs \in {<< >>, <<"QR">>, <<"EK">>} :
        FieldCase([Mapping("marketingAirline", "marketing_airline", "airline_flight", dt, mode,
                           nh, norm)
                      EXCEPT !.ignoreCriteria = ig, !.alternativePaths = alt,
                             !.fallbackPath = fb],
                  WithAttr(WithAttr(FieldCoupon, "marketing_airline", mkt),
                           "operating_airline", op),
                  ins, outs)

\* the O&D pairs of the record, a list attribute
OndCases ==
    \E mode \in MatchModes, nh \in NullHandlings, norm \in {<<"trim", "upper">>, << >>},
       ig \in BOOLEAN,
       ond \in {<< >>, <<"CAI-DOH">>, <<"CAI-DOH", "DOH-CGK">>, <<"CAI-DOH", "Unknown">>,
                <<"UNKNOWN">>},
       ins \in {<< >>, <<"CAI-DOH">>, <<"CAI-DOH", "DOH-CGK">>, <<"DOH-CGK">>, <<"ANY">>,
                <<"all">>},
       outs \in {<< >>, <<"DOH-CGK">>, <<"CGK-DOH">>} :
        FieldCase([Mapping("ond", "ond_array", "geographic", "list", mode, nh, norm)
                      EXCEPT !.ignoreCriteria = ig],
                  [FieldCoupon EXCEPT !.ond_array = ond], ins, outs)

FlightPipelines ==
    {<<"stripAirlinePrefix">>, <<"trim", "upper", "stripAirlinePrefix">>,
     <<"stripAirlinePrefix", "trimLeadingZeros">>}

\* the flight number, with or without an airline prefix on either side
FlightCases ==
    \E nh \in NullHandlings, pipeline \in FlightPipelines, fl \in FlightStrings,
       ins \in {<< >>, <<"QR1234">>, <<"1234">>, <<"EK1234">>, <<"QR0012">>},
       outs \in {<< >>, <<"QR1234">>} :
        FieldCase(Mapping("flightNumber", "flight_number", "airline_flight", "string", "any",
                          nh, pipeline),
                  [FieldCoupon EXCEPT !.flight_number = fl], ins, outs)

InitField ==
    /\ AirlineCases \/ OndCases \/ FlightCases
    /\ contract = BaseContract
    /\ pc = "field_start"
    /\ trigger_value = 0
    /\ payout_value = 0
    /\ applicable_tier = NoRow
    /\ PipelineIdle
    /\ SingleContract
    /\ PeriodIdle
    /\ field_value = FieldNone
    /\ check_result = Passed

GetFieldValue ==
    /\ pc = "field_start"
    /\ field_value' = get_field_value(coupon, arg_field)
    /\ pc' = "field_resolved"
    /\ UNCHANGED <<periodVars, loopVars, inputVars, valueVars, phaseVars, addonVars, resultVars, calls,
                   mapper_config, arg_field, arg_in, arg_out, check_result>>

CheckCriterion ==
    /\ pc = "field_resolved"
    /\ check_result' = _check_criterion_explicit(coupon, arg_field, arg_in, arg_out)
    /\ pc' = "field_checked"
    /\ UNCHANGED <<periodVars, loopVars, inputVars, valueVars, phaseVars, addonVars, resultVars, calls,
                   mapper_config, arg_field, arg_in, arg_out, field_value>>

NextField == GetFieldValue \/ CheckCriterion

SpecField == InitField /\ [][NextField]_vars

(***************************************************************************)
(* Claims about the tier lookup (SpecTier).                                *)
(***************************************************************************)
\* the considered revenue and the declared rows of the state's inputs
TierRevenue == coupon.cpn_revenue_base

DeclaredRows == AllRows(contract.tiers)

\* min <= r <= max, as the tier table declares it
Contains(row, r) ==
    /\ Rescale(row.min, MaxE(row.min, r)) <= Rescale(r, MaxE(row.min, r))
    /\ (row.max_inf \/ Rescale(r, MaxE(row.max, r)) <= Rescale(row.max, MaxE(row.max, r)))

MatchingRows(r) == {i \in 1..Len(DeclaredRows) : Contains(DeclaredRows[i], r)}

\* the rows cover [0, infinity): every bound, every point between two
\* bounds and a point beyond the last bound lies in some row
CoversAll == \A r \in RevenueGrid : MatchingRows(r) # {}

\* every row is a proper interval and two rows share at most a bound: no
\* point strictly between two bounds, or beyond the last, lies in two rows
TouchOnly ==
    /\ \A i \in 1..Len(DeclaredRows) :
           DeclaredRows[i].max_inf \/ DecLT(DeclaredRows[i].min, DeclaredRows[i].max)
    /\ \A i, j \in 1..Len(DeclaredRows) :
           i # j => \A r \in RevenueGrid :
                       (Contains(DeclaredRows[i], r) /\ Contains(DeclaredRows[j], r))
                           => r.c % 1000 = 0

TierLookedUp == pc \in {"tier_found", "tier_done"}

\* C10 as stated: over a table that covers [0, infinity) without gaps (and
\* whose rows at most touch), exactly one row holds the revenue.
C10_ExactlyOneRow ==
    (TierLookedUp /\ CoversAll /\ TouchOnly)
        => Cardinality(MatchingRows(TierRevenue)) = 1

\* C10 amended: over a table that covers [0, infinity) the lookup always
\* returns a row that holds the revenue (exactly one row holds it when the
\* rows at most touch and the revenue is not a bound shared by two rows);
\* for a revenue that no row holds the lookup returns nothing and the
\* tiered payout is 0.
C10_LookupTotal ==
    TierLookedUp =>
        /\ CoversAll =>
              /\ ~IsNone(applicable_tier)
              /\ \E i \in MatchingRows(TierRevenue) : applicable_tier[1] = DeclaredRows[i]
        /\ (CoversAll /\ TouchOnly
               /\ \A i \in 1..Len(DeclaredRows) :
                      /\ ~DecEq(DeclaredRows[i].min, TierRevenue)
                      /\ (DeclaredRows[i].max_inf \/ ~DecEq(DeclaredRows[i].max, TierRevenue)))
              => Cardinality(MatchingRows(TierRevenue)) = 1
        /\ MatchingRows(TierRevenue) = {} =>
              /\ IsNone(applicable_tier)
              /\ pc = "tier_done" => payout_value = 0

\* a covering table, a revenue on the bound two rows share, the first row returned
C10_Witness ==
    /\ pc = "tier_done"
    /\ CoversAll /\ TouchOnly
    /\ Cardinality(MatchingRows(TierRevenue)) = 2
    /\ applicable_tier = Some(DeclaredRows[1])
    /\ payout_value > 0

\* the first declared row that holds the revenue
FirstContaining ==
    DeclaredRows[CHOOSE i \in MatchingRows(TierRevenue) :
                    \A j \in MatchingRows(TierRevenue) : i <= j]

\* what the claim pays for a row: revenue * value / 100 for a PERCENT row,
\* the value itself for an AMOUNT row, in units of 0.0001
RowPayout(row, r) ==
    IF row.unit = "PERCENT"
    THEN (2 * r.c * row.value.c * Pow10(4) + Pow10(r.e + row.value.e + 2))
            \div (2 * Pow10(r.e + row.value.e + 2))
    ELSE row.value.c * Pow10(4 - row.value.e)

PercentagePath ==
    /\ pc = "payout_computed"
    /\ contract.payout_type = "PERCENTAGE"
    /\ ~IsNone(contract.payout_percentage)
    /\ ~contract.payout_capping
    /\ IsNone(contract.payout_formula)
    /\ ~IsIn("NONE", contract.payout_components)

\* the sum of the listed revenue components of the record
ComponentSum ==
    DecAdd(DecAdd(IF IsIn("BASE", contract.payout_components)
                  THEN coupon.cpn_revenue_base ELSE DecZero,
                  IF IsIn("YQ", contract.payout_components)
                  THEN coupon.cpn_revenue_yq ELSE DecZero),
           IF IsIn("XT", contract.payout_components) THEN coupon.cpn_revenue_xt ELSE DecZero)

\* r * p / 100 rounded half-up to 4 places, in units of 0.0001
PercentOf(r, p) ==
    LET n == r.c * p.c
        e == r.e + p.e + 2
    IN  IF e <= 4 THEN n * Pow10(4 - e)
        ELSE (n \div Pow10(e - 4)) + (IF 2 * (n % Pow10(e - 4)) >= Pow10(e - 4) THEN 1 ELSE 0)

\* C1 as stated: on the PERCENTAGE path without capping, compute_payout is
\* r * p / 100 rounded half-up to 4 places, r the sum of the payout
\* components and p the contract percentage (1000 at 2 percent gives 20.0000).
C1_PercentagePayout ==
    PercentagePath =>
        payout_value = PercentOf(ComponentSum, contract.payout_percentage[1])

\* the payout took the AMOUNT branch of the component path
AmountPath ==
    /\ pc = "payout_computed"
    /\ contract.payout_type = "AMOUNT"
    /\ (IsNone(contract.payout_formula)
          \/ ~_is_mathematical_formula(contract.payout_formula[1]))

\* d rounded half-up to 4 places, in units of 0.0001
FourPlaces(d) ==
    IF d.e <= 4 THEN d.c * Pow10(4 - d.e)
    ELSE (d.c \div Pow10(d.e - 4)) + (IF 2 * (d.c % Pow10(d.e - 4)) >= Pow10(d.e - 4) THEN 1 ELSE 0)

\* the amount the contract carries, 0 when it carries none
ConfiguredAmount ==
    IF contract.payout_fixed_amount = << >> THEN DecZero ELSE contract.payout_fixed_amount[1]

TriggerComponentPath ==
    /\ pc \in {"trigger_computed", "payout_computed"}
    /\ (IsNone(contract.trigger_formula)
          \/ ~_is_mathematical_formula(contract.trigger_formula[1]))

\* the value of a component when the trigger spec declares it, else 0
Declared(component, value) ==
    IF \E i \in 1..Len(contract.trigger_components) :
           contract.trigger_components[i] = component
    THEN value ELSE DecZero

DeclaredSum ==
    DecAdd(DecAdd(Declared("BASE", coupon.cpn_revenue_base),
                  Declared("YQ", coupon.cpn_revenue_yq)),
           DecAdd(Declared("YR", coupon.cpn_revenue_yr),
                  Declared("XT", coupon.cpn_revenue_xt)))

TierPercentFormula ==
    /\ pc = "payout_computed"
    /\ contract.payout_formula = Some(<<"payout", "=", "BASE", "*", "tier_percent">>)
    /\ ~contract.payout_capping
    /\ contract.tiers # << >>

\* the sum of the payout components of the record
PayoutConsidered ==
    IF IsIn("NONE", contract.payout_components) THEN coupon.cpn_total_revenue
    ELSE ComponentSum

\* the declared rows that hold the considered revenue of the payout
HoldingRows ==
    {i \in 1..Len(AllRows(contract.tiers)) :
        Contains(AllRows(contract.tiers)[i], PayoutConsidered)}

FirstHoldingRow ==
    AllRows(contract.tiers)[CHOOSE i \in HoldingRows : \A j \in HoldingRows : i <= j]

\* C14 as stated: tier_percent is value / 100 of the row whose bracket
\* holds the considered revenue (the sum of the payout components), so
\* BASE * tier_percent is BASE * value / 100 of that row, for every
\* considered revenue.
C14_TierPercentOfHoldingRow ==
    (TierPercentFormula /\ HoldingRows # {} /\ FirstHoldingRow.unit = "PERCENT")
        => payout_value = PercentOf(coupon.cpn_revenue_base, FirstHoldingRow.value)

\* the payout is the value of the formula, uncapped
FormulaIs(toks) ==
    /\ pc = "payout_computed"
    /\ ~contract.payout_capping
    /\ contract.payout_formula = Some(toks)

\* C15 as stated: evaluate_formula returns 0 for a formula that does not
\* parse, holds an unsupported construct, divides by zero or names a
\* parameter outside the evaluation context; a call of a function other than
\* amount_in_slab_on is 0 at the place of the call.
C15_ZeroOnFailure ==
    /\ FormulaIs(<<"payout", "=", "BASE", "*">>) => payout_value = 0
    /\ FormulaIs(<<"payout", "=", "BASE", ">", "YQ">>) => payout_value = 0
    /\ (FormulaIs(<<"payout", "=", "BASE", "/", "YQ">>) /\ coupon.cpn_revenue_yq.c = 0)
          => payout_value = 0
    /\ FormulaIs(<<"payout", "=", "BASE", "+", "FOO">>) => payout_value = 0
    /\ FormulaIs(<<"payout", "=", "BASE", "+", "rebate", "(", "YQ", ")">>)
          => payout_value = FourPlaces(coupon.cpn_revenue_base)

(***************************************************************************)
(* Claims about the eligibility phases (Spec).                             *)
(***************************************************************************)
SectorChecked == "check_sector_eligibility" \in calls

\* the fields of a criteria set with a non-empty IN entry and a non-empty
\* OUT entry
BothSides(criteria) ==
    {criteria.IN[i].field : i \in {k \in 1..Len(criteria.IN) :
        /\ criteria.IN[k].rules # << >>
        /\ \E j \in 1..Len(criteria.OUT) :
              /\ criteria.OUT[j].field = criteria.IN[k].field
              /\ criteria.OUT[j].rules # << >>}}

\* the configured group of a contract field is a sector group
SectorField(field) ==
    \E i \in 1..Len(config_mappings) :
        /\ Some(config_mappings[i].ruleField) = contract_field_to_rule_field(field)
        /\ config_mappings[i].criteriaGroup \in {"geographic", "booking", "airline_flight"}

\* the criteria set the payout phase reads
ChosenCriteria ==
    IF contract.payout_eligibility_criteria.IN # << >>
         \/ contract.payout_eligibility_criteria.OUT # << >>
    THEN contract.payout_eligibility_criteria
    ELSE contract.trigger_eligibility_criteria

\* C2 as stated: a field with a non-empty IN entry and a non-empty OUT entry
\* in the same criteria set fails its check, so the phase that evaluates the
\* field is ineligible whatever the record holds.
C2_BothSidesFailClosed ==
    (pc = "done" /\ SectorChecked) =>
        /\ (\E f \in BothSides(contract.trigger_eligibility_criteria) : SectorField(f))
              => ~sector_eligible
        /\ (sector_eligible
              /\ \E f \in BothSides(contract.trigger_eligibility_criteria) : ~SectorField(f))
              => ~trigger_eligible
        /\ (sector_eligible /\ BothSides(ChosenCriteria) # {}) => ~payout_eligible

\* the date the window applies to, and the window test of the contract
RelevantDate ==
    IF contract.trigger_type = "FLOWN" THEN coupon.cpn_flown_date ELSE coupon.cpn_sales_date

OutsideWindow == RelevantDate < contract.start_date \/ RelevantDate > contract.end_date

WindowReason(reasons) ==
    \E i \in 1..Len(reasons) : reasons[i].msg = "Date not in contract window"

\* the contract carries airline codes and none of them is the record's
\* code, ignoring case and surrounding blanks
AirlineGateRejects ==
    /\ contract.airline_codes # << >>
    /\ \A i \in 1..Len(contract.airline_codes) :
          StrUpper(StrStrip(contract.airline_codes[i]))
              # StrUpper(StrStrip(coupon.cpn_airline_code))

LaterOperations ==
    {"compute_trigger", "compute_payout", "check_trigger_eligibility",
     "check_payout_eligibility", "process_addon_rules"}

\* C4 as stated: with a non-empty airline-code set on the contract, a record
\* whose code is in the set ignoring case passes the airline gate at the
\* pre-check and at Phase 0; on a mismatch the contract ends with Sector =
\* false and no later check run.
C4_CaseInsensitiveGate ==
    (pc = "done" /\ contract.airline_codes # << >>) =>
        IF AirlineGateRejects
        THEN /\ \A i \in 1..Len(contract_analyses) :
                    ~contract_analyses[i].analysis.sector_eligibility
             /\ calls \cap LaterOperations = {}
        ELSE /\ contract_count = 1
             /\ SectorChecked
             /\ \A i \in 1..Len(sector_reasons) :
                    sector_reasons[i].msg # "Sector airline mismatch"

FlagsImplySector(analysis) ==
    /\ analysis.trigger_eligibility => analysis.sector_eligibility
    /\ analysis.payout_eligibility => analysis.sector_eligibility

\* C5: in every ContractAnalysis, before and after the addon rules, trigger
\* eligibility and payout eligibility each imply sector eligibility; for a
\* contract whose sector check failed, the trigger check, the payout check,
\* the value computations and the addon rules are never run and the values
\* stay 0.
C5_PhasesGated ==
    /\ ~IsNone(contract_analysis) => FlagsImplySector(contract_analysis[1])
    /\ \A i \in 1..Len(contract_analyses) : FlagsImplySector(contract_analyses[i].analysis)
    /\ ~sector_eligible =>
          /\ calls \cap LaterOperations = {}
          /\ trigger_value = 0 /\ payout_value = 0
          /\ IsNone(addon_result)

\* a contract with an addon rule that would rescue the record, sector failed
C5_Witness ==
    /\ pc = "done"
    /\ SectorChecked
    /\ ~sector_eligible
    /\ contract.addon_rule_cases # << >>
    /\ Len(contract_analyses) = 1
    /\ contract_analyses[1].key = <<"Contract", 1>>
    /\ ~contract_analyses[1].analysis.trigger_eligibility

\* every entry of both sides of a criteria set passes its field check
AllFieldsPass(criteria) ==
    /\ \A i \in 1..Len(criteria.IN) :
          _check_criterion(coupon, criteria.IN[i].field, criteria.IN[i].rules, << >>).passed
    /\ \A i \in 1..Len(criteria.OUT) :
          _check_criterion(coupon, criteria.OUT[i].field, << >>, criteria.OUT[i].rules).passed

\* C6: once Sector has passed, check_payout_eligibility runs whatever the
\* trigger check returned; it reads the payout criteria when they have an IN
\* or OUT entry and the trigger criteria otherwise, and it passes iff every
\* field of the chosen set, sector-group fields included, passes its check.
C6_PayoutIndependent ==
    /\ (sector_eligible /\ pc \notin {"sector_done", "trigger", "payout"})
          => "check_payout_eligibility" \in calls
    /\ "check_payout_eligibility" \in calls
          => payout_eligible = AllFieldsPass(ChosenCriteria)

\* the payout check passed after the trigger check failed
C6_Witness ==
    /\ pc = "done"
    /\ "check_payout_eligibility" \in calls
    /\ ~trigger_eligible
    /\ payout_eligible
    /\ contract.payout_eligibility_criteria.IN # << >>

(***************************************************************************)
(* Claims about the addon rules (SpecAddon).                               *)
(***************************************************************************)
\* the dictionary process_addon_rules returned
AddonsReturned == ~IsNone(addon_result)

StaysTrue(before, after) == before => after

\* C7: addon processing is monotonic.  After every prefix of the addon list
\* a flag that entered process_addon_rules true is still true, no step of
\* the loop turns a running flag from true to false, the returned flags are
\* not below the initial ones, and update_contract_analysis_with_addon never
\* turns a flag of the analysis from true to false.
C7_AddonMonotonic ==
    [][/\ pc = "addon_loop" =>
             /\ StaysTrue(final_trigger_eligible, final_trigger_eligible')
             /\ StaysTrue(final_payout_eligible, final_payout_eligible')
       /\ pc' = "addon_loop" =>
             /\ StaysTrue(trigger_eligible', final_trigger_eligible')
             /\ StaysTrue(payout_eligible', final_payout_eligible')
       /\ ~IsNone(addon_result') =>
             /\ StaysTrue(trigger_eligible', addon_result'[1].trigger_eligible)
             /\ StaysTrue(payout_eligible', addon_result'[1].payout_eligible)
       /\ ~IsNone(contract_analysis) =>
             /\ ~IsNone(contract_analysis')
             /\ StaysTrue(contract_analysis[1].trigger_eligibility,
                          contract_analysis'[1].trigger_eligibility)
             /\ StaysTrue(contract_analysis[1].payout_eligibility,
                          contract_analysis'[1].payout_eligibility)]_vars

\* the payout flag entered true, the first addon applied, a second addon was
\* processed without applying, and the analysis was updated
C7_Witness ==
    /\ pc = "done"
    /\ AddonsReturned
    /\ ~trigger_eligible /\ payout_eligible
    /\ Len(addon_result[1].addon_details) = 2
    /\ addon_result[1].addon_details[1].applied
    /\ ~addon_result[1].addon_details[2].applied
    /\ contract_analyses[1].analysis.trigger_eligibility
    /\ contract_analyses[1].analysis.payout_eligibility

\* C8: process_addon_rules processes every declared addon rule in
\* declaration order, also after an earlier addon has applied: during the
\* loop the details hold one entry per rule processed so far, the returned
\* addon_details hold one entry per declared rule in that order, addon_applied
\* is true iff some entry applied, and then both returned flags are true.
C8_EveryAddonRecorded ==
    /\ pc = "addon_loop" =>
          /\ Len(addon_details) = addon_index - 1
          /\ \A i \in 1..Len(addon_details) :
                addon_details[i].addon_rule_id = contract.addon_rule_cases[i].addon_rule_id
    /\ AddonsReturned =>
          /\ Len(addon_result[1].addon_details) = Len(contract.addon_rule_cases)
          /\ \A i \in 1..Len(addon_result[1].addon_details) :
                addon_result[1].addon_details[i].addon_rule_id
                    = contract.addon_rule_cases[i].addon_rule_id
          /\ addon_result[1].addon_applied
                <=> \E i \in 1..Len(addon_result[1].addon_details) :
                       addon_result[1].addon_details[i].applied
          /\ addon_result[1].addon_applied =>
                (addon_result[1].trigger_eligible /\ addon_result[1].payout_eligible)

\* two different rules, the first applied and the second recorded after it
\* without applying
C8_Witness ==
    /\ AddonsReturned
    /\ Len(contract.addon_rule_cases) = 2
    /\ contract.addon_rule_cases[1] # contract.addon_rule_cases[2]
    /\ addon_result[1].addon_details[1].applied
    /\ ~addon_result[1].addon_details[2].applied
    /\ addon_result[1].addon_details[2].reason = "Addon rule conditions not met"
    /\ addon_result[1].addon_applied

\* an exclusion text covers the record: the record holds what it rules out
ExclusionCovers(exclusion) ==
    \/ exclusion = "Disallowed RBD M" /\ coupon.cpn_RBD = "M"
    \/ exclusion = "Discount fares PRV" /\ coupon.fare_type = "PRV"

Vetoed(addon_rule) ==
    \E j \in 1..Len(addon_rule.exclusions_still_applicable) :
        ExclusionCovers(addon_rule.exclusions_still_applicable[j])

\* C9 as stated: an addon applies only when a mapping matched and no entry
\* of its exclusions covers the record; an addon with an exclusion that
\* covers the record is reported as not applied, with a reason naming the
\* exclusion, and leaves both flags as they were.
C9_ExclusionsEffective ==
    \A i \in 1..Len(addon_details) :
        /\ addon_details[i].applied =>
              /\ ~IsNone(addon_details[i].detail)
              /\ ~Vetoed(contract.addon_rule_cases[i])
        /\ (Vetoed(contract.addon_rule_cases[i])
              /\ addon_details[i].reason
                    \notin {"Addon rule conditions not met", "No matching mapping found"})
              => /\ ~addon_details[i].applied
                 /\ addon_details[i].reason = "Excluded by"

(***************************************************************************)
(* Claims about the field mapper and the criterion check (SpecField).      *)
(***************************************************************************)
\* the entry of the configuration and the normalization pipeline of the field
CheckedMapping == mapper_config[1]

Pipeline == CheckedMapping.normalize

FlightResolved == arg_field = "flightNumber" /\ pc # "field_start"

\* (P + D, D): a two-letter airline prefix before a digit string
PrefixedFlights ==
    {<<"QR1234", "1234">>, <<"EK1234", "1234">>, <<"QR0012", "0012">>, <<"QR00", "00">>}

\* the rule's only IN value and the record's flight number are P + D and D,
\* either way round
OneSidePrefixed ==
    /\ Len(arg_in) = 1
    /\ \E pair \in PrefixedFlights :
           \/ arg_in[1] = pair[1] /\ coupon.flight_number = pair[2]
           \/ arg_in[1] = pair[2] /\ coupon.flight_number = pair[1]

UnknownSpellings == {"unknown", "Unknown", "UNKNOWN"}

\* the resolved value is such a string, or a list that holds one
ResolvedUnknown ==
    /\ field_value.kind # "none"
    /\ \E i \in 1..Len(field_value.vals) : field_value.vals[i] \in UnknownSpellings

ResolvedEmpty == field_value.kind = "none" \/ field_value = Scalar("")

RecordValues == {field_value.vals[i] : i \in 1..Len(field_value.vals)}

NormIn == normalize_rule_values(arg_field, arg_in)

InSet == {NormIn[i] : i \in 1..Len(NormIn)}

OutSet ==
    {normalize_rule_values(arg_field, arg_out)[i] :
        i \in 1..Len(normalize_rule_values(arg_field, arg_out))}

\* the spellings of the wildcard among the resolved values of the records
WildcardSpellings == UnknownSpellings \cup {" Unknown", " UNKNOWN", " unknown"}

\* a list/string field was checked on a non-null value that is no wildcard
ListChecked ==
    /\ pc = "field_checked"
    /\ CheckedMapping.dataType \in {"string", "list"}
    /\ ~CheckedMapping.ignoreCriteria
    /\ ~ResolvedEmpty
    /\ RecordValues \cap WildcardSpellings = {}

\* what the match mode asks of the record values and the IN list
ModeHolds ==
    CASE CheckedMapping.matchMode = "any" -> RecordValues \cap InSet # {}
      [] CheckedMapping.matchMode = "all" -> RecordValues \subseteq InSet
      [] CheckedMapping.matchMode = "none" -> RecordValues \cap InSet = {}

\* C19 as stated: if any record value is in the normalized OUT list the
\* field fails for every match mode; otherwise an IN list with the token ALL
\* or ANY passes; otherwise the field passes iff some (any), every (all), no
\* (none) record value is in the IN list.
C19_ListMatch ==
    ListChecked =>
        IF RecordValues \cap OutSet # {} THEN ~check_result.passed
        ELSE IF "ALL" \in InSet \/ "ANY" \in InSet THEN check_result.passed
        ELSE check_result.passed <=> ModeHolds

\* C19, amended: as stated, but an empty IN list passes under every match
\* mode once no record value is in the OUT list.
C19_ListMatchOrNoInList ==
    ListChecked =>
        IF RecordValues \cap OutSet # {} THEN ~check_result.passed
        ELSE IF InSet = {} \/ "ALL" \in InSet \/ "ANY" \in InSet THEN check_result.passed
        ELSE check_result.passed <=> ModeHolds

\* mode all with one of two record values outside the IN list
C19_Witness ==
    /\ ListChecked
    /\ CheckedMapping.matchMode = "all"
    /\ field_value = ListOf(<<"CAI-DOH", "DOH-CGK">>)
    /\ arg_in = <<"CAI-DOH">>
    /\ arg_out = <<"CGK-DOH">>
    /\ ~check_result.passed

\* what one attribute of the record yields: nothing for None and "", else
\* its value
Yields(path) == path \in DOMAIN coupon /\ coupon[path] # ""

AlternativeYields ==
    \E i \in 1..Len(CheckedMapping.alternativePaths) : Yields(CheckedMapping.alternativePaths[i])

\* the normalized value of a scalar attribute
Normalized(path) == Scalar(_apply_normalization(coupon[path], Pipeline))

\* C20 as stated: get_field_value resolves in strict order; whenever the
\* primary path yields a value the result is derived from the primary value
\* alone, the alternative paths count only when the primary path yields
\* nothing and the fallback path only when none of them yields a value.
C20_StrictOrder ==
    (pc # "field_start" /\ arg_field = "marketingAirline") =>
        IF Yields(CheckedMapping.inputPath)
        THEN field_value = Normalized(CheckedMapping.inputPath)
        ELSE IF AlternativeYields
        THEN field_value = Normalized(CheckedMapping.alternativePaths[1])
        ELSE IF ~IsNone(CheckedMapping.fallbackPath) /\ Yields(CheckedMapping.fallbackPath[1])
        THEN field_value = Normalized(CheckedMapping.fallbackPath[1])
        ELSE field_value = FieldNone

(***************************************************************************)
(* Claims about the phases of one contract (Spec).                         *)
(***************************************************************************)
\* the payout criteria set has no IN and no OUT entry
NoPayoutCriteria ==
    contract.payout_eligibility_criteria.IN = << >>
        /\ contract.payout_eligibility_criteria.OUT = << >>

\* the three checks were made for the contract and the addon rules not yet
PhasesChecked == pc = "assemble" /\ "check_payout_eligibility" \in calls

\* C27: for a contract whose payout criteria set has no IN and no OUT
\* entries, whenever the sector check passed, check_trigger_eligibility and
\* check_payout_eligibility return the same boolean (before the addon rules).
C27_PayoutFollowsTrigger ==
    (PhasesChecked /\ NoPayoutCriteria /\ sector_eligible) =>
        payout_eligible = trigger_eligible

\* both outcomes: a record that fails a non-sector trigger field fails both
\* checks, and the contract has sector-group trigger fields that passed
C27_Witness ==
    /\ PhasesChecked /\ NoPayoutCriteria /\ sector_eligible
    /\ ~trigger_eligible /\ ~payout_eligible
    /\ contract.trigger_eligibility_criteria.IN # << >>

C27_WitnessBothPass ==
    /\ PhasesChecked /\ NoPayoutCriteria /\ sector_eligible
    /\ trigger_eligible /\ payout_eligible
    /\ \E i \in 1..Len(contract.trigger_eligibility_criteria.IN) :
           in_sector_group(contract.trigger_eligibility_criteria.IN[i])

(***************************************************************************)
(* Claims about the contract loop (SpecLoop).                              *)
(***************************************************************************)
\* the step of the loop at which the evaluation of the contract raises
Raising ==
    /\ contract.malformed # ""
    /\ pc \in {"start", "sector"}
    /\ pc' = "finish"

\* every analysis stored before the step is stored after it, under its key
AnalysesKept ==
    \A i \in 1..Len(contract_analyses) :
        \E j \in 1..Len(contract_analyses') : contract_analyses'[j] = contract_analyses[i]

\* an analysis of the contract with the three flags false and the error in
\* its reasons
IsFailedAnalysis(analysis, c) ==
    /\ analysis.contract_id = c.contract_id
    /\ ~analysis.sector_eligibility
    /\ ~analysis.trigger_eligibility
    /\ ~analysis.payout_eligibility
    /\ \A reasons \in {analysis.sector_eligibility_reason, analysis.trigger_eligibility_reason,
                       analysis.payout_eligibility_reason} :
           \E k \in 1..Len(reasons) : reasons[k].msg = "Processing error"

\* C21 as stated: when the evaluation of a contract raises, the analyses
\* already produced for other contracts stay in the output unchanged, the
\* output gets a failed analysis of the contract (three flags false, the
\* error text in its reasons) and the loop goes on to the later contracts.
C21_FailureIsolated ==
    [][Raising =>
          /\ AnalysesKept
          /\ \E j \in 1..Len(contract_analyses') :
                 IsFailedAnalysis(contract_analyses'[j].analysis, contract)
          /\ loop_index' = loop_index /\ all_contracts' = all_contracts]_vars

\* the part of C21 that holds: the failed analysis is stored and the loop goes on
C21_FailureRecorded ==
    [][Raising =>
          /\ \E j \in 1..Len(contract_analyses') :
                 IsFailedAnalysis(contract_analyses'[j].analysis, contract)
          /\ loop_index' = loop_index /\ all_contracts' = all_contracts]_vars

\* the input is structurally invalid: no airline code, or no contract
InvalidInput == coupon.cpn_airline_code = "" \/ all_contracts = << >>

\* C22 as stated: the call raises exactly when the input is structurally
\* invalid (empty contract set or empty airline code), what reaches the
\* caller for an empty airline code is a ValidationError, and every other
\* call returns a ProcessingResult.
C22_HardFailure ==
    ~IsNone(outcome) =>
        /\ outcome[1].kind = "raised" <=> InvalidInput
        /\ outcome[1].kind = "returned" <=> ~InvalidInput
        /\ coupon.cpn_airline_code = "" => outcome[1].value.class = "ValidationError"

\* the part of C22 that holds: the call raises exactly on invalid input
C22_RaisesOnInvalidInput ==
    ~IsNone(outcome) =>
        /\ outcome[1].kind = "raised" <=> InvalidInput
        /\ outcome[1].kind = "returned" <=> ~InvalidInput

\* the calls made before this one with the same record
EarlierCalls == {k \in 1..Len(results) : results[k].coupon = coupon}

\* a step of a call (not the caller passing the next record)
CallStep == pc \notin {"done", "raised"}

\* C23: evaluation is a pure function of (record, contract set).  No step
\* changes the cached contract set, no step of a call changes the record or
\* what earlier calls returned, and a call gives for a record the outcome
\* (analyses with flags, reasons and values, counters, or the error) that
\* every earlier call gave for that record, whatever was evaluated between.
C23_PureEvaluation ==
    /\ [](~IsNone(outcome) => \A k \in EarlierCalls : results[k].outcome = outcome[1])
    /\ [][/\ all_contracts' = all_contracts
          /\ CallStep => (coupon' = coupon /\ results' = results)
          /\ ~CallStep => SubSeq(results', 1, Len(results)) = results]_vars

\* the record was evaluated, another record after it, then the record again,
\* over a cache whose contracts leave flags behind
C23_Witness ==
    /\ pc = "done"
    /\ Len(results) = 2
    /\ results[1].coupon = coupon
    /\ results[2].coupon # coupon
    /\ results[2].outcome.kind = "returned"
    /\ results[2].outcome.value.eligible_contracts > outcome[1].value.eligible_contracts
    /\ Len(all_contracts) = 2

\* the contracts of the cache that passed the airline pre-check, in order
PassedPreCheck ==
    SelectSeq(all_contracts,
              LAMBDA c : ~precheck_raises(c) /\ passes_precheck(coupon, c))

\* the call returned a ProcessingResult
CallReturned == ~IsNone(outcome) /\ outcome[1].kind = "returned"

\* one entry per counted contract, each the analysis of that contract, or
\* the single placeholder when no contract was counted
OneEntryPerContract(result) ==
    IF result.total_contracts_processed >= 1
    THEN /\ Len(result.contract_analyses) = result.total_contracts_processed
         /\ \A k \in 1..Len(result.contract_analyses) :
                /\ k <= Len(PassedPreCheck)
                /\ result.contract_analyses[k].analysis.contract_id
                       = PassedPreCheck[k].contract_id
    ELSE /\ Len(result.contract_analyses) = 1
         /\ result.contract_analyses[1].key[1] = "No_Contract"
         /\ ~result.contract_analyses[1].analysis.sector_eligibility
         /\ ~result.contract_analyses[1].analysis.trigger_eligibility
         /\ ~result.contract_analyses[1].analysis.payout_eligibility

\* C28 as stated: in every ProcessingResult contract_analyses holds exactly
\* one entry per contract counted as processed (as many entries as
\* total_contracts_processed, none overwritten by another contract's, a
\* failed analysis included), and exactly the "No_Contract" placeholder with
\* three false flags when no contract passed the airline pre-check.
C28_OneEntryPerContract == CallReturned => OneEntryPerContract(outcome[1].value)

\* the part of C28 that holds: over a cache none of whose contracts raises
C28_WithoutRaising ==
    (CallReturned /\ \A i \in 1..Len(all_contracts) : all_contracts[i].malformed = "") =>
        OneEntryPerContract(outcome[1].value)

\* a result with two counted contracts, and one with the placeholder
C28_TwoEntries ==
    /\ CallReturned
    /\ outcome[1].value.total_contracts_processed = 2
    /\ \A i \in 1..Len(all_contracts) : all_contracts[i].malformed = ""

\* the step at which the loop passes over the contract without an analysis
\* (the pre-check did not raise: nothing was stored for the contract)
ContractSkipped ==
    /\ pc = "start" /\ pc' = "finish"
    /\ ~precheck_raises(contract)
    /\ contract_analyses' = contract_analyses
    /\ contract_count' = contract_count

\* the airlines the contract declares: its Marketing Airline IN list and
\* its airline-code set
DeclaredAirlines(c) ==
    {c.airline_codes[i] : i \in 1..Len(c.airline_codes)}
        \cup UNION {{c.trigger_eligibility_criteria.IN[i].rules[j] :
                        j \in 1..Len(c.trigger_eligibility_criteria.IN[i].rules)} :
                    i \in {k \in 1..Len(c.trigger_eligibility_criteria.IN) :
                              c.trigger_eligibility_criteria.IN[k].field = "Marketing Airline"}}

\* C29 as stated: the pre-check skips a contract only when the contract
\* restricts airlines (a non-empty Marketing Airline IN list or a non-empty
\* airline-code set) and the record's carrier code is in none of them; a
\* contract that declares no airline restriction gets an analysis for every
\* record, whatever its iata_codes hold.
C29_SkipsOnlyRestricted ==
    [][ContractSkipped =>
          /\ DeclaredAirlines(contract) # {}
          /\ coupon.cpn_airline_code \notin DeclaredAirlines(contract)]_vars

\* the part of C29 that holds: a skipped contract carries codes (declared
\* airlines or iata_codes) and the record's carrier code is none of them
C29_SkipsOnlyOnCodes ==
    [][ContractSkipped =>
          /\ DeclaredAirlines(contract) \cup SeqToSet(contract.iata_codes) # {}
          /\ coupon.cpn_airline_code \notin DeclaredAirlines(contract)]_vars

\* a contract with no declared airline was passed over
C29_SkippedUnrestricted ==
    /\ pc = "finish"
    /\ DeclaredAirlines(contract) = {}
    /\ contract.malformed = ""
    /\ ~passes_precheck(coupon, contract)

\* the number of returned analyses whose trigger flag is true
TriggerTrueEntries(result) ==
    Cardinality({k \in 1..Len(result.contract_analyses) :
                    result.contract_analyses[k].analysis.trigger_eligibility})

\* C30 as stated: in every ProcessingResult eligible_contracts is the number
\* of returned analyses whose trigger_eligibility is true, as it stands after
\* the addon rules, and 0 <= eligible_contracts <= total_contracts_processed.
C30_EligibleCount ==
    CallReturned =>
        /\ outcome[1].value.eligible_contracts = TriggerTrueEntries(outcome[1].value)
        /\ 0 <= outcome[1].value.eligible_contracts
        /\ outcome[1].value.eligible_contracts <= outcome[1].value.total_contracts_processed

\* the part of C30 that holds: the bounds of the counter
C30_CountWithinProcessed ==
    CallReturned =>
        /\ 0 <= outcome[1].value.eligible_contracts
        /\ outcome[1].value.eligible_contracts <= outcome[1].value.total_contracts_processed

\* an addon rule turned the trigger flag of a counted contract to true and
\* the counter stayed below the number of analyses with the flag
C30_AddonNotCounted ==
    /\ CallReturned
    /\ \A i \in 1..Len(all_contracts) : all_contracts[i].malformed = ""
    /\ outcome[1].value.eligible_contracts < TriggerTrueEntries(outcome[1].value)

\* the analysis of a counted eligible contract was replaced by a failed one
C30_CountedThenReplaced ==
    /\ CallReturned
    /\ outcome[1].value.eligible_contracts > TriggerTrueEntries(outcome[1].value)

(***************************************************************************)
(* Claims about the assembled analysis (SpecAddon).                        *)
(***************************************************************************)
IsPrefix(old, new) == Len(old) <= Len(new) /\ SubSeq(new, 1, Len(old)) = old

\* the fields of an analysis that no later step may touch
FrozenFields ==
    {"contract_id", "contract_window_date", "trigger_formula", "payout_formula",
     "trigger_value", "payout_value", "sector_eligibility", "sector_eligibility_reason"}

\* C24: once the analysis is assembled it changes only where the result of
\* process_addon_rules is applied to it (update_contract_analysis_with_addon,
\* for a result with addon_applied); that step leaves the sector flag and
\* reason, the values, the formulas and the contract metadata as they are,
\* turns no flag from true to false and only appends to the trigger and
\* payout reasons; the analysis stored in the result is the updated one.
C24_OnlyAddonUpdate ==
    [][~IsNone(contract_analysis) =>
          /\ ~IsNone(contract_analysis')
          /\ contract_analysis' # contract_analysis =>
                pc = "addons_done" /\ addon_result[1].addon_applied
          /\ \A f \in FrozenFields : contract_analysis'[1][f] = contract_analysis[1][f]
          /\ StaysTrue(contract_analysis[1].trigger_eligibility,
                       contract_analysis'[1].trigger_eligibility)
          /\ StaysTrue(contract_analysis[1].payout_eligibility,
                       contract_analysis'[1].payout_eligibility)
          /\ IsPrefix(contract_analysis[1].trigger_eligibility_reason,
                      contract_analysis'[1].trigger_eligibility_reason)
          /\ IsPrefix(contract_analysis[1].payout_eligibility_reason,
                      contract_analysis'[1].payout_eligibility_reason)
          /\ pc' = "finish" =>
                contract_analyses'[Len(contract_analyses')].analysis = contract_analysis[1]]_vars

\* the trigger check failed with a reason, an addon applied, and the stored
\* analysis has the trigger flag raised and the addon reason after the old one
C24_Witness ==
    /\ pc = "finish"
    /\ ~IsNone(addon_result) /\ addon_result[1].addon_applied
    /\ ~trigger_eligible
    /\ contract_analyses[1].analysis.trigger_eligibility
    /\ contract_analyses[1].analysis.sector_eligibility
    /\ Len(contract_analyses[1].analysis.trigger_eligibility_reason)
          = Len(trigger_reasons) + 1
    /\ contract_analyses[1].analysis.trigger_eligibility_reason[1] = trigger_reasons[1]

(***************************************************************************)
(* Claims about the periods and the generated contracts (SpecPeriods).     *)
(***************************************************************************)
\* the periods are numbered 1..n and cover the window day by day
Partitions(ps, first_day, last_day) ==
    /\ ps # << >>
    /\ \A k \in 1..Len(ps) : ps[k].index = k /\ date_le(ps[k].start, ps[k].end)
    /\ ps[1].start = first_day
    /\ ps[Len(ps)].end = last_day
    /\ \A k \in 2..Len(ps) : ps[k].start = next_day(ps[k - 1].end)

\* the window of the test: 6 monthly, 2 quarterly and 3 two-month periods
TestWindow == window_start = Date(2025, 4, 1) /\ window_end = Date(2025, 9, 30)

TestCounts ==
    /\ reset_config.period = "MONTHLY" => Len(periods) = 6
    /\ reset_config.period = "QUARTERLY" => Len(periods) = 2
    /\ by_months(reset_config) /\ reset_config.reset_after_months = 2 => Len(periods) = 3

\* C25 as stated: for start_date <= end_date and a MONTHLY, QUARTERLY or
\* CUSTOM period (positive reset_after_days or reset_after_months) the
\* calculation returns periods indexed 1..n that partition the window; the
\* window 2025-04-01..2025-09-30 gives 6 monthly, 2 quarterly and 3
\* two-month periods.
C25_PeriodsPartition ==
    pc = "periods_returned" =>
        /\ Partitions(periods, window_start, window_end)
        /\ TestWindow => TestCounts

\* the part of C25 that holds: the same for every window whose loop ended
\* without reaching its safety limit
C25_PartitionWithinLimit ==
    (pc = "periods_returned" /\ period_index <= loop_limit(reset_config)) =>
        /\ Partitions(periods, window_start, window_end)
        /\ TestWindow => TestCounts

\* the i-th contract is the contract of the i-th period
ContractOfPeriod(c, i) ==
    /\ c.mtp_period_index = i
    /\ c.evaluation_basis = "ROLL_BACK_TO_ZERO"
    /\ c.period_start_date = periods[i].start /\ c.period_end_date = periods[i].end
    /\ c.start_date = periods[i].start /\ c.end_date = periods[i].end
    /\ reset_config.mtp_naming = "SEQUENTIAL" =>
          \E k \in 1..(Len(c.rule_id) - 1) : c.rule_id[k] = "MTP" /\ c.rule_id[k + 1] = i

\* C26 as stated: for a ROLL_BACK_TO_ZERO rule with a TIME_BASED reset_config
\* and generate_mtps = true, _generate_mtps_for_rollback returns one contract
\* per calculated period, in period order, the i-th with mtp_period_index i,
\* evaluation_basis ROLL_BACK_TO_ZERO, the period's bounds as period dates
\* and validity window and, under sequential naming, a rule_id with "MTP"
\* followed by i; a monthly rule over 2025-04-01..2025-09-30 gives 6.
C26_OneContractPerPeriod ==
    pc = "mtps_done" =>
        /\ mtp_outcome[1].kind = "returned"
        /\ Len(mtp_contracts) = Len(periods)
        /\ \A i \in 1..Len(mtp_contracts) : ContractOfPeriod(mtp_contracts[i], i)
        /\ (TestWindow /\ reset_config.period = "MONTHLY") => Len(mtp_contracts) = 6

====
